---- MODULE Spec2Model ----
(***************************************************************************)
(* Gulf expiry helper (src/app.py): the document-status rule, the tolerant *)
(* loader of the JSON data file, the profile / employee upserts and the    *)
(* read-only reports, as a state machine over the persisted data file.     *)
(*                                                                         *)
(* Strings are TLA+ strings, read character by character with SubSeq.      *)
(* A JSON value is a tagged record [k |-> kind, v |-> payload]; a JSON     *)
(* object (a Python dict) is the sequence of its <<key, value>> pairs in   *)
(* insertion order, which is the order Python iterates it in.  Numbers in  *)
(* the data file are integers.                                             *)
(***************************************************************************)
EXTENDS Integers, Sequences, FiniteSets, TLC

VARIABLES
    disk,    \* the content of DATA_FILE (a JSON value, or missing / corrupt)
    today,   \* date.today(), as a proleptic Gregorian ordinal
    call,    \* the last call made: its name and arguments
    pre,     \* the content of DATA_FILE when the last call started
    ret,     \* what the last call returned, or that it raised
    saves    \* number of upserts made so far

vars == <<disk, today, call, pre, ret, saves>>

(***************************************************************************)
(* Bounds of the model.                                                    *)
(***************************************************************************)
MaxSaves == 2        \* upserts per behaviour

(***************************************************************************)
(* Python str helpers.                                                     *)
(***************************************************************************)
\* s[i - 1], or "" past the end of s
Ch(s, i) == IF i \in 1..Len(s) THEN SubSeq(s, i, i) ELSE ""

RECURSIVE LStrip(_)
LStrip(s) == IF Ch(s, 1) \in {" ", "\t", "\n"} THEN LStrip(Tail(s)) ELSE s

RECURSIVE RStrip(_)
RStrip(s) ==
    IF Ch(s, Len(s)) \in {" ", "\t", "\n"} THEN RStrip(SubSeq(s, 1, Len(s) - 1)) ELSE s

\* str.strip()
Strip(s) == RStrip(LStrip(s))

\* the lower-case letter of each upper-case letter
LowerOf ==
    [c \in {Ch("ABCDEFGHIJKLMNOPQRSTUVWXYZ", i) : i \in 1..26} |->
        Ch("abcdefghijklmnopqrstuvwxyz",
           CHOOSE i \in 1..26 : Ch("ABCDEFGHIJKLMNOPQRSTUVWXYZ", i) = c)]

LowerCh(c) == IF c \in DOMAIN LowerOf THEN LowerOf[c] ELSE c

\* str.lower()
RECURSIVE Lower(_)
Lower(s) == IF Len(s) = 0 THEN s ELSE LowerCh(Ch(s, 1)) \o Lower(Tail(s))

\* the value of each decimal digit
DigitOf ==
    [c \in {Ch("0123456789", i) : i \in 1..10} |->
        (CHOOSE i \in 1..10 : Ch("0123456789", i) = c) - 1]

IsDigit(c) == c \in DOMAIN DigitOf

\* the value of a string of decimal digits
RECURSIVE DecVal(_)
DecVal(s) ==
    IF Len(s) = 0 THEN 0
    ELSE 10 * DecVal(SubSeq(s, 1, Len(s) - 1)) + DigitOf[Ch(s, Len(s))]

\* "%02d" / "%04d"
RECURSIVE Pad(_, _)
Pad(s, w) == IF Len(s) < w THEN Pad("0" \o s, w) ELSE s

\* "\n".join(lines)
RECURSIVE JoinLines(_)
JoinLines(lines) ==
    IF Len(lines) = 0 THEN ""
    ELSE IF Len(lines) = 1 THEN lines[1]
    ELSE lines[1] \o "\n" \o JoinLines(Tail(lines))

(***************************************************************************)
(* datetime.date: ordinals, as the standard library computes them.         *)
(***************************************************************************)
IsLeap(y) == y % 4 = 0 /\ (y % 100 # 0 \/ y % 400 = 0)

DaysInMonth(y, m) ==
    IF m = 2 THEN (IF IsLeap(y) THEN 29 ELSE 28)
    ELSE IF m \in {4, 6, 9, 11} THEN 30 ELSE 31

DaysBeforeMonth(y, m) ==
    <<0, 31, 59, 90, 120, 151, 181, 212, 243, 273, 304, 334>>[m]
    + (IF m > 2 /\ IsLeap(y) THEN 1 ELSE 0)

DaysBeforeYear(y) == (y - 1) * 365 + ((y - 1) \div 4) - ((y - 1) \div 100) + ((y - 1) \div 400)

\* date(y, m, d).toordinal()
Ymd2Ord(y, m, d) == DaysBeforeYear(y) + DaysBeforeMonth(y, m) + d

\* the month holding day number r (from 0) of year y
MonthOfDay(y, r) == CHOOSE m \in 1..12 : DaysBeforeMonth(y, m) <= r /\ (m = 12 \/ r < DaysBeforeMonth(y, m + 1))

YmdOfDay(y, m, r) == [y |-> y, m |-> m, d |-> r - DaysBeforeMonth(y, m) + 1]

\* the date of day r1 of the n1-th year of the n4-th 4-year cycle of the n100-th
\* century of the n400-th 400-year cycle
YmdOfCycles(n400, n100, n4, n1, r1) ==
    IF n1 = 4 \/ n100 = 4
    THEN [y |-> n400 * 400 + n100 * 100 + n4 * 4 + n1, m |-> 12, d |-> 31]
    ELSE YmdOfDay(n400 * 400 + 1 + n100 * 100 + n4 * 4 + n1,
                  MonthOfDay(n400 * 400 + 1 + n100 * 100 + n4 * 4 + n1, r1), r1)

\* date.fromordinal(n), as [y, m, d]
Ord2Ymd(n) ==
    YmdOfCycles((n - 1) \div 146097,
                ((n - 1) % 146097) \div 36524,
                (((n - 1) % 146097) % 36524) \div 1461,
                ((((n - 1) % 146097) % 36524) % 1461) \div 365,
                ((((n - 1) % 146097) % 36524) % 1461) % 365)

FormatYmd(t) ==
    Pad(ToString(t.y), 4) \o "-" \o Pad(ToString(t.m), 2) \o "-" \o Pad(ToString(t.d), 2)

\* date.strftime("%Y-%m-%d")
FormatDate(n) == FormatYmd(Ord2Ymd(n))

(***************************************************************************)
(* datetime.strptime(s, "%Y-%m-%d"): the pattern                           *)
(*   \d\d\d\d - (1[0-2]|0[1-9]|[1-9]) - (3[01]|[12]\d|0[1-9]|[1-9]| [1-9]) *)
(* matched from the start, first alternative that fits, and the whole      *)
(* string must be consumed; then the date must exist.                      *)
(***************************************************************************)
NoDate == 0    \* parse_date's None (ordinals start at 1)

\* length of the month field whose first characters are a, b (0: no match)
MonthFieldLen(a, b) ==
    IF a = "1" /\ b \in {"0", "1", "2"} THEN 2
    ELSE IF a = "0" /\ IsDigit(b) /\ b # "0" THEN 2
    ELSE IF IsDigit(a) /\ a # "0" THEN 1
    ELSE 0

\* length of the day field whose first characters are a, b (0: no match)
DayFieldLen(a, b) ==
    IF a = "3" /\ b \in {"0", "1"} THEN 2
    ELSE IF a \in {"1", "2"} /\ IsDigit(b) THEN 2
    ELSE IF a = "0" /\ IsDigit(b) /\ b # "0" THEN 2
    ELSE IF IsDigit(a) /\ a # "0" THEN 1
    ELSE IF a = " " /\ IsDigit(b) /\ b # "0" THEN 2
    ELSE 0

\* date(y, m, d) for any day number, February 30 being March 1 or 2
MakeDateUnchecked(y, m, d) == Ymd2Ord(y, m, d)

\* date(y, m, d), which raises ValueError for a day the month does not have
MakeDate(y, m, d) == IF y < 1 \/ d > DaysInMonth(y, m) THEN NoDate ELSE Ymd2Ord(y, m, d)

StrptimeDay(s, ml, dl) ==
    IF dl = 0 \/ 6 + ml + dl # Len(s) THEN NoDate
    ELSE MakeDate(DecVal(SubSeq(s, 1, 4)), DecVal(SubSeq(s, 6, 5 + ml)),
                  DecVal(LStrip(SubSeq(s, 7 + ml, Len(s)))))

StrptimeMonth(s, ml) ==
    IF ml = 0 \/ Ch(s, 6 + ml) # "-" THEN NoDate
    ELSE StrptimeDay(s, ml, DayFieldLen(Ch(s, 7 + ml), Ch(s, 8 + ml)))

\* the ordinal of the date s denotes, or NoDate when strptime raises
Strptime(s) ==
    IF (\E i \in 1..4 : ~IsDigit(Ch(s, i))) \/ Ch(s, 5) # "-" THEN NoDate
    ELSE StrptimeMonth(s, MonthFieldLen(Ch(s, 6), Ch(s, 7)))

(***************************************************************************)
(* JSON values, as json.load returns them.                                 *)
(***************************************************************************)
JNull == [k |-> "null", v |-> 0]
JStr(s) == [k |-> "str", v |-> s]
JInt(n) == [k |-> "int", v |-> n]
JList(q) == [k |-> "list", v |-> q]
JDict(q) == [k |-> "dict", v |-> q]

\* the data file does not exist / does not hold JSON
Missing == [k |-> "missing", v |-> 0]
Corrupt == [k |-> "corrupt", v |-> 0]

IsDict(x) == x.k = "dict"
IsList(x) == x.k = "list"
IsStr(x) == x.k = "str"

\* key in d
Has(d, key) == \E i \in 1..Len(d.v) : d.v[i][1] = key

\* d.get(key, dflt)
Get(d, key, dflt) ==
    IF Has(d, key)
    THEN d.v[CHOOSE i \in 1..Len(d.v) : d.v[i][1] = key][2]
    ELSE dflt

\* d[key] = val: in place when the key is there, else appended
DictSet(d, key, val) ==
    IF Has(d, key)
    THEN JDict([i \in 1..Len(d.v) |->
                   IF d.v[i][1] = key THEN <<key, val>> ELSE d.v[i]])
    ELSE JDict(Append(d.v, <<key, val>>))

NoDict == JDict(<<>>)
NoList == JList(<<>>)
NoStr == JStr("")

RECURSIVE Flatten(_)
Flatten(qq) == IF Len(qq) = 0 THEN <<>> ELSE Head(qq) \o Flatten(Tail(qq))

(***************************************************************************)
(* load_store: the data file read into the canonical store.                *)
(***************************************************************************)
_empty_store == JDict(<< <<"profiles", NoDict>>, <<"companies", NoDict>> >>)

\* lines 67-68: a top-level value that is not a dict is read as {}
RawDict(file) == IF IsDict(file) THEN file ELSE NoDict

\* lines 70-81: the profiles and companies values normalization iterates
RawProfiles(raw) ==
    IF Get(raw, "profiles", JNull) = JNull
    THEN (IF Get(raw, "companies", JNull) = JNull THEN raw ELSE NoDict)
    ELSE Get(raw, "profiles", JNull)

RawCompanies(raw) ==
    IF Get(raw, "companies", JNull) = JNull THEN NoDict ELSE Get(raw, "companies", JNull)

\* every field that is a dict, with an "expiry" key or without
RECURSIVE DocLikeAnyDict(_)
DocLikeAnyDict(q) ==
    IF Len(q) = 0 THEN <<>>
    ELSE (IF IsDict(Head(q)[2]) THEN <<Head(q)>> ELSE <<>>) \o DocLikeAnyDict(Tail(q))

\* lines 93-95 (118-120): every field that is a dict with an "expiry" key
RECURSIVE DocLike(_)
DocLike(q) ==
    IF Len(q) = 0 THEN <<>>
    ELSE (IF IsDict(Head(q)[2]) /\ Has(Head(q)[2], "expiry") THEN <<Head(q)>> ELSE <<>>)
         \o DocLike(Tail(q))

\* docs always inferred from the record's fields, whether it has "docs" or not
CleanDocsInferred(rec) == JDict(DocLike(rec.v))

\* lines 88, 90-97 (114, 116-125): the docs of a profile or employee record
CleanDocs(rec) ==
    IF Get(rec, "docs", JNull) = JNull THEN JDict(DocLike(rec.v))
    ELSE IF IsDict(Get(rec, "docs", JNull)) THEN Get(rec, "docs", JNull)
    ELSE NoDict

\* lines 89, 98 (115, 126): the history of a profile or employee record
CleanHistory(rec) ==
    IF IsList(Get(rec, "history", NoList)) THEN Get(rec, "history", NoList) ELSE NoList

\* the profile record kept with its other fields, docs and history cleaned
CleanProfileKept(p) ==
    <<p[1], DictSet(DictSet(p[2], "docs", CleanDocs(p[2])), "history", CleanHistory(p[2]))>>

\* lines 96-99
CleanProfile(p) ==
    <<p[1], JDict(<< <<"docs", CleanDocs(p[2])>>, <<"history", CleanHistory(p[2])>> >>)>>

\* lines 84-99: new_profiles, over profiles.items(); non-dict entries are skipped
RECURSIVE CleanProfiles(_)
CleanProfiles(items) ==
    IF Len(items) = 0 THEN <<>>
    ELSE (IF IsDict(Head(items)[2]) THEN <<CleanProfile(Head(items))>> ELSE <<>>)
         \o CleanProfiles(Tail(items))

\* lines 112-113: .strip() on a value that is not a str raises AttributeError
EmployeeRaises(emp) ==
    \/ ~IsStr(Get(emp, "name", NoStr))
    \/ ~IsStr(Get(emp, "role", NoStr))

\* lines 112-128
CleanEmployee(emp) ==
    JDict(<< <<"name", JStr(Strip(Get(emp, "name", NoStr).v))>>,
             <<"role", JStr(Strip(Get(emp, "role", NoStr).v))>>,
             <<"docs", CleanDocs(emp)>>,
             <<"history", CleanHistory(emp)>> >>)

\* lines 109-128: clean_emps, over a list of employees; non-dict items are skipped
RECURSIVE CleanEmployeeList(_)
CleanEmployeeList(employees) ==
    IF Len(employees) = 0 THEN <<>>
    ELSE (IF IsDict(Head(employees)) THEN <<CleanEmployee(Head(employees))>> ELSE <<>>)
         \o CleanEmployeeList(Tail(employees))

\* lines 106-128: only a list of employees is read
CleanEmployees(cdata) ==
    IF IsList(Get(cdata, "employees", NoList))
    THEN CleanEmployeeList(Get(cdata, "employees", NoList).v)
    ELSE <<>>

\* lines 108-113 raise on one of the employees
CompanyRaises(cdata) ==
    /\ IsList(Get(cdata, "employees", NoList))
    /\ \E i \in 1..Len(Get(cdata, "employees", NoList).v) :
          /\ IsDict(Get(cdata, "employees", NoList).v[i])
          /\ EmployeeRaises(Get(cdata, "employees", NoList).v[i])

\* line 129
CleanCompany(c) == <<c[1], JDict(<< <<"employees", JList(CleanEmployees(c[2]))>> >>)>>

\* lines 102-129: new_companies, over companies.items(); non-dict entries are skipped
RECURSIVE CleanCompanies(_)
CleanCompanies(items) ==
    IF Len(items) = 0 THEN <<>>
    ELSE (IF IsDict(Head(items)[2]) THEN <<CleanCompany(Head(items))>> ELSE <<>>)
         \o CleanCompanies(Tail(items))

CompaniesRaise(companies) ==
    \/ ~IsDict(companies)
    \/ \E i \in 1..Len(companies.v) :
          IsDict(companies.v[i][2]) /\ CompanyRaises(companies.v[i][2])

\* an exception leaves load_store: .items() of a non-dict (lines 85, 103) or
\* .strip() of a non-str (lines 112-113)
LoadRaises(file) ==
    /\ file.k \notin {"missing", "corrupt"}
    /\ \/ ~IsDict(RawProfiles(RawDict(file)))
       \/ CompaniesRaise(RawCompanies(RawDict(file)))

\* lines 58-131: the store load_store returns when it does not raise
load_store(file) ==
    IF file.k \in {"missing", "corrupt"} THEN _empty_store
    ELSE JDict(<< <<"profiles", JDict(CleanProfiles(RawProfiles(RawDict(file)).v))>>,
                  <<"companies", JDict(CleanCompanies(RawCompanies(RawDict(file)).v))>> >>)

\* save_store then a later json.load: json.dump writes the dicts, lists, strs
\* and ints of the store as they are, in order
save_store(store) == store

(***************************************************************************)
(* Date and status helpers.                                                *)
(***************************************************************************)
\* parse_date of a JSON value: None for a falsy value, and for whatever
\* .strip() or strptime raises on
parse_date(dstr) == IF IsStr(dstr) THEN Strptime(Strip(dstr.v)) ELSE NoDate

\* days_until: (expiry - date.today()).days
days_until(expiry, now) == expiry - now

\* evaluate_doc's {} for an invalid expiry
NoEval == [expiry |-> JNull, days_left |-> 0, status |-> "NONE", reminder_days |-> 0]

IsEval(eva) == eva.status # "NONE"

NearLimit == 30

\* the status rule with the near-expiry boundary one day early
StatusOfEarly(dleft) ==
    IF dleft < 0 THEN "EXPIRED"
    ELSE IF dleft < NearLimit THEN "NEAR EXPIRY"
    ELSE "OK"

\* lines 169-174
StatusOf(dleft) ==
    IF dleft < 0 THEN "EXPIRED"
    ELSE IF dleft <= NearLimit THEN "NEAR EXPIRY"
    ELSE "OK"

\* lines 165-181, expiry_date being parse_date(expiry_str)
EvalParsed(expiry_str, reminder_days, expiry_date, now) ==
    IF expiry_date = NoDate THEN NoEval
    ELSE [expiry |-> expiry_str,
          days_left |-> days_until(expiry_date, now),
          status |-> StatusOf(days_until(expiry_date, now)),
          reminder_days |-> reminder_days]

evaluate_doc(expiry_str, reminder_days, now) ==
    EvalParsed(expiry_str, reminder_days, parse_date(expiry_str), now)

(***************************************************************************)
(* int(x) of a str: optional blanks, an optional sign, digits that single  *)
(* underscores may separate.                                               *)
(***************************************************************************)
Unsigned(t) == IF Ch(t, 1) \in {"+", "-"} THEN Tail(t) ELSE t

IntBodyOk(b) ==
    /\ Len(b) > 0
    /\ IsDigit(Ch(b, 1))
    /\ IsDigit(Ch(b, Len(b)))
    /\ \A i \in 1..Len(b) :
          \/ IsDigit(Ch(b, i))
          \/ Ch(b, i) = "_" /\ Ch(b, i + 1) # "_"

IntStrOk(s) == IntBodyOk(Unsigned(Strip(s)))

RECURSIVE DropUnderscores(_)
DropUnderscores(s) ==
    IF Len(s) = 0 THEN s
    ELSE (IF Ch(s, 1) = "_" THEN "" ELSE Ch(s, 1)) \o DropUnderscores(Tail(s))

IntOfStripped(t) ==
    IF Ch(t, 1) = "-" THEN 0 - DecVal(DropUnderscores(Unsigned(t)))
    ELSE DecVal(DropUnderscores(Unsigned(t)))

IntStrVal(s) == IntOfStripped(Strip(s))

\* int(x) raises: ValueError for a str that is no integer, TypeError for
\* None, a list or a dict
IntRaises(x) ==
    CASE x.k = "int" -> FALSE
      [] x.k = "str" -> ~IntStrOk(x.v)
      [] OTHER -> TRUE

IntOf(x) == IF x.k = "int" THEN x.v ELSE IntStrVal(x.v)

(***************************************************************************)
(* The upsert form: for each document type, the expiry and reminder texts. *)
(***************************************************************************)
DOC_TYPES ==
    <<"Emirates ID", "Visa", "Driving License", "Passport", "Car Insurance",
      "Tenancy Contract">>

DefaultReminder == 30

\* lines 223-224 (402-403): `not dstr` skips the field
FieldSkipped(f) == f[1] = ""

\* no date is rejected
FieldDateNeverBad(f) == FALSE

\* lines 225-228 (404-407): a date that does not parse is an error
FieldDateBad(f) == ~FieldSkipped(f) /\ parse_date(JStr(f[1])) = NoDate

\* the reminder with a fallback of 0 for a text that is no integer
ReminderOfZero(rstr) ==
    IF rstr = "" THEN DefaultReminder
    ELSE IF IntStrOk(rstr) THEN IntStrVal(rstr)
    ELSE 0

\* lines 230-239 (409-418)
ReminderOf(rstr) ==
    IF rstr = "" THEN DefaultReminder
    ELSE IF IntStrOk(rstr) THEN IntStrVal(rstr)
    ELSE DefaultReminder

\* the document with the date as it was typed
FieldDocAsTyped(f) ==
    JDict(<< <<"expiry", JStr(f[1])>>, <<"reminder_days", JInt(ReminderOf(f[2]))>> >>)

\* lines 241-244 (420-423)
FieldDoc(f) ==
    JDict(<< <<"expiry", JStr(Strip(f[1]))>>, <<"reminder_days", JInt(ReminderOf(f[2]))>> >>)

\* lines 219-244 (398-423): docs, over raw_inputs in DOC_TYPES order
RECURSIVE BuildDocsFrom(_, _)
BuildDocsFrom(form, i) ==
    IF i > Len(DOC_TYPES) THEN <<>>
    ELSE (IF FieldSkipped(form[i]) \/ FieldDateBad(form[i]) THEN <<>>
          ELSE << <<DOC_TYPES[i], FieldDoc(form[i])>> >>)
         \o BuildDocsFrom(form, i + 1)

BuildDocs(form) == JDict(BuildDocsFrom(form, 1))

\* lines 226-228, 235-239 (405-407, 414-418): the errors one field adds
FieldErrors(doc_type, f) ==
    IF FieldSkipped(f) THEN <<>>
    ELSE IF FieldDateBad(f) THEN <<doc_type \o ": invalid date (use YYYY-MM-DD).">>
    ELSE IF f[2] # "" /\ ~IntStrOk(f[2])
         THEN <<doc_type \o ": invalid reminder days, using 30 by default.">>
    ELSE <<>>

\* lines 220-239 (399-418): errors, in the order they are appended
RECURSIVE BuildErrorsFrom(_, _)
BuildErrorsFrom(form, i) ==
    IF i > Len(DOC_TYPES) THEN <<>>
    ELSE FieldErrors(DOC_TYPES[i], form[i]) \o BuildErrorsFrom(form, i + 1)

BuildErrors(form) == BuildErrorsFrom(form, 1)

(***************************************************************************)
(* Reports over saved documents.                                           *)
(***************************************************************************)
\* info.get(...) of a non-dict raises AttributeError, int(...) of a non-integer
\* raises ValueError or TypeError (lines 304, 330, 505, 535, 582, 608, 698, 730)
DocRaises(info) ==
    \/ ~IsDict(info)
    \/ IntRaises(Get(info, "reminder_days", JInt(DefaultReminder)))

DocsRaise(docs) == \E i \in 1..Len(docs.v) : DocRaises(docs.v[i][2])

\* evaluate_doc(info.get("expiry", ""), int(info.get("reminder_days", 30)))
EvalInfo(info, now) ==
    evaluate_doc(Get(info, "expiry", NoStr),
                 IntOf(Get(info, "reminder_days", JInt(DefaultReminder))), now)

\* the update that also takes a later document with the same days_left
BestStepLast(best, doc_type, eva) ==
    IF IsEval(eva) /\ (~IsEval(best.info) \/ eva.days_left <= best.info.days_left)
    THEN [doc |-> doc_type, info |-> eva]
    ELSE best

\* lines 333-335 (508-510, 538-540)
BestStep(best, doc_type, eva) ==
    IF IsEval(eva) /\ (~IsEval(best.info) \/ eva.days_left < best.info.days_left)
    THEN [doc |-> doc_type, info |-> eva]
    ELSE best

\* lines 327-335 (502-510, 532-540): the first document with the least days_left
RECURSIVE BestFrom(_, _, _, _)
BestFrom(docs, i, best, now) ==
    IF i > Len(docs.v) THEN best
    ELSE BestFrom(docs, i + 1,
                  BestStep(best, docs.v[i][1], EvalInfo(docs.v[i][2], now)), now)

\* best_doc and best_info; NoEval stands for best_info is None
BestDoc(docs, now) == BestFrom(docs, 1, [doc |-> "", info |-> NoEval], now)

NoDocsKey == 99999

\* the sort key of lines 349, 555, 628 and 757, for the cell holding days_left
DaysKey(cell) == IF cell.k = "int" THEN cell.v ELSE NoDocsKey

\* list.sort(key=lambda r: r[col - 1] ...): stable, ascending
RECURSIVE InsertByKey(_, _, _)
InsertByKey(col, row, sorted) ==
    IF Len(sorted) = 0 THEN <<row>>
    ELSE IF DaysKey(Head(sorted)[col]) <= DaysKey(row[col])
         THEN <<Head(sorted)>> \o InsertByKey(col, row, Tail(sorted))
         ELSE <<row>> \o sorted

\* the rows left in the order they were appended in
SortByKeyNone(col, rows) == rows

RECURSIVE SortByKey(_, _)
SortByKey(col, rows) ==
    IF Len(rows) = 0 THEN <<>>
    ELSE InsertByKey(col, rows[Len(rows)], SortByKey(col, SubSeq(rows, 1, Len(rows) - 1)))

\* lines 336-347: one row of the profiles overview
ProfileRowOf(pname, best) ==
    IF ~IsEval(best.info)
    THEN <<JStr(pname), JStr("-"), JStr("-"), JStr("-"), JStr("NO VALID DOCS")>>
    ELSE <<JStr(pname), JStr(best.doc), best.info.expiry,
           JInt(best.info.days_left), JStr(best.info.status)>>

\* build_profiles_overview_table raises (line 330)
OverviewRaises(store) ==
    \E i \in 1..Len(Get(store, "profiles", NoDict).v) :
        DocsRaise(Get(Get(store, "profiles", NoDict).v[i][2], "docs", NoDict))

\* lines 318-350
build_profiles_overview_table(store, now) ==
    SortByKey(4, [i \in 1..Len(Get(store, "profiles", NoDict).v) |->
                     ProfileRowOf(Get(store, "profiles", NoDict).v[i][1],
                                  BestDoc(Get(Get(store, "profiles", NoDict).v[i][2],
                                              "docs", NoDict), now))])

\* lines 306-313: the line of one document in the profile summary
DocLineOf(doc_type, eva) ==
    IF ~IsEval(eva) THEN doc_type \o ": invalid expiry date."
    ELSE doc_type \o ": expires on " \o eva.expiry.v \o " (" \o ToString(eva.days_left)
         \o " days left) - status: " \o eva.status \o ", reminder at "
         \o ToString(eva.reminder_days) \o " days before."

\* lines 289-293 (482-486)
ErrorLines(errors) ==
    IF Len(errors) = 0 THEN <<>>
    ELSE <<"Some issues found while saving your data:">>
         \o [i \in 1..Len(errors) |-> "- " \o errors[i]] \o <<"">>

\* lines 281-315
build_profile_summary(profile_name, docs, errors, now) ==
    JoinLines(ErrorLines(errors)
              \o <<"Expiry Summary for profile: " \o profile_name \o " (Today: "
                   \o FormatDate(now) \o ")", "">>
              \o (IF Len(docs.v) = 0 THEN <<"No documents saved for this profile.">>
                  ELSE [i \in 1..Len(docs.v) |->
                           DocLineOf(docs.v[i][1], EvalInfo(docs.v[i][2], now))]))

\* `x or "-"`
OrDash(x) == IF x.k = "str" /\ x.v # "" THEN x.v ELSE "-"

\* build_company_summary / build_employee_table raises (lines 505, 535)
CompanyReportRaises(company) ==
    \E i \in 1..Len(Get(company, "employees", NoList).v) :
        DocsRaise(Get(Get(company, "employees", NoList).v[i], "docs", NoDict))

\* lines 511-517: the line of one employee in the company summary
EmployeeLineOf(name, role, best) ==
    IF ~IsEval(best.info) THEN name \o " (" \o role \o "): no valid documents."
    ELSE name \o " (" \o role \o "): next expiry " \o best.doc \o " on "
         \o best.info.expiry.v \o " (" \o ToString(best.info.days_left)
         \o " days left), status: " \o best.info.status \o "."

\* lines 492-517
EmployeeLines(employees, now) ==
    IF Len(employees.v) = 0 THEN <<"No employees saved for this company.">>
    ELSE [i \in 1..Len(employees.v) |->
             EmployeeLineOf(OrDash(Get(employees.v[i], "name", NoStr)),
                            OrDash(Get(employees.v[i], "role", NoStr)),
                            BestDoc(Get(employees.v[i], "docs", NoDict), now))]

\* lines 474-519
build_company_summary(company_name, company, errors, now) ==
    JoinLines(ErrorLines(errors)
              \o <<"Company expiry summary: " \o company_name \o " (Today: "
                   \o FormatDate(now) \o ")", "">>
              \o EmployeeLines(Get(company, "employees", NoList), now))

\* lines 541-554: one row of the employee table
EmployeeRowOf(company_name, name, role, best) ==
    IF ~IsEval(best.info)
    THEN <<JStr(company_name), JStr(name), JStr(role), JStr("-"), JStr("-"),
           JStr("-"), JStr("NO VALID DOCS")>>
    ELSE <<JStr(company_name), JStr(name), JStr(role), JStr(best.doc),
           best.info.expiry, JInt(best.info.days_left), JStr(best.info.status)>>

\* lines 522-556
build_employee_table(company_name, company, now) ==
    SortByKey(6, [i \in 1..Len(Get(company, "employees", NoList).v) |->
                     EmployeeRowOf(company_name,
                                   OrDash(Get(Get(company, "employees", NoList).v[i], "name", NoStr)),
                                   OrDash(Get(Get(company, "employees", NoList).v[i], "role", NoStr)),
                                   BestDoc(Get(Get(company, "employees", NoList).v[i],
                                               "docs", NoDict), now))])

(***************************************************************************)
(* Upserts.                                                                *)
(***************************************************************************)
\* the history entry whose note counts the document types of the form
HistoryEntryAll(who, docs, now, hm) ==
    JDict(<< <<"timestamp", JStr(FormatDate(now) \o " " \o hm)>>,
             <<"note", JStr(who \o " updated with " \o ToString(Len(DOC_TYPES))
                            \o " documents.")>> >>)

\* lines 251-256 (438-443): the history entry of one save, the timestamp being
\* datetime.now().strftime("%Y-%m-%d %H:%M")
HistoryEntry(who, docs, now, hm) ==
    JDict(<< <<"timestamp", JStr(FormatDate(now) \o " " \o hm)>>,
             <<"note", JStr(who \o " updated with " \o ToString(Len(docs.v)) \o " documents.")>> >>)

\* the name taken as it was typed
ProfileKeyAsTyped(profile_name) == profile_name

\* lines 202-204
ProfileKey(profile_name) ==
    IF Strip(profile_name) = "" THEN "Self" ELSE Strip(profile_name)

NoProfile == JDict(<< <<"docs", NoDict>>, <<"history", NoList>> >>)

\* the record written with a history that starts over
ProfileRecordFresh(docs, history, entry) ==
    JDict(<< <<"docs", docs>>, <<"history", JList(<<entry>>)>> >>)

\* lines 251-261: the record written for the profile
ProfileRecord(docs, history, entry) ==
    JDict(<< <<"docs", docs>>, <<"history", JList(Append(history.v, entry))>> >>)

\* old.update(pairs)
RECURSIVE DictUpdate(_, _)
DictUpdate(old, pairs) ==
    IF Len(pairs) = 0 THEN old
    ELSE DictUpdate(DictSet(old, pairs[1][1], pairs[1][2]), Tail(pairs))

\* the submitted documents merged into the stored ones
PutProfileMerged(profiles, key, docs, entry) ==
    DictSet(profiles, key,
            ProfileRecord(DictUpdate(Get(Get(profiles, key, NoProfile), "docs", NoDict), docs.v),
                          Get(Get(profiles, key, NoProfile), "history", NoList), entry))

\* lines 247-261
PutProfile(profiles, key, docs, entry) ==
    DictSet(profiles, key,
            ProfileRecord(docs, Get(Get(profiles, key, NoProfile), "history", NoList), entry))

\* lines 246-261: the store after the profile is written into it
UpsertProfile(store, key, docs, now, hm) ==
    DictSet(store, "profiles",
            PutProfile(Get(store, "profiles", NoDict), key, docs,
                       HistoryEntry("Profile", docs, now, hm)))

\* lines 274-276 (467-469)
SavedMsg(errors) ==
    IF Len(errors) = 0 THEN "Saved successfully."
    ELSE "Saved successfully." \o " Some issues were found; see summary."

\* the call ended with an exception
Raised == [raised |-> TRUE]

\* lines 265-278: what save_profile returns after save_store
ProfileReturn(key, docs, errors, store, now) ==
    IF OverviewRaises(store) THEN Raised
    ELSE [raised |-> FALSE,
          summary |-> build_profile_summary(key, docs, errors, now),
          pdf |-> JStr("profile_" \o key \o "_summary.pdf"),
          rows |-> build_profiles_overview_table(store, now),
          msg |-> SavedMsg(errors),
          errors |-> errors]

\* lines 263-278
ProfileWritten(key, docs, errors, store) ==
    /\ disk' = save_store(store)
    /\ ret' = ProfileReturn(key, docs, errors, store, today)

\* save_profile, lines 186-278
save_profile(profile_name, form, hm) ==
    /\ saves < MaxSaves
    /\ saves' = saves + 1
    /\ call' = [op |-> "save_profile", profile_name |-> profile_name, form |-> form,
                hm |-> hm, at |-> today]
    /\ pre' = disk
    /\ today' = today
    /\ IF LoadRaises(disk)
       THEN /\ disk' = disk
            /\ ret' = Raised
       ELSE ProfileWritten(ProfileKey(profile_name), BuildDocs(form), BuildErrors(form),
                           UpsertProfile(load_store(disk), ProfileKey(profile_name),
                                         BuildDocs(form), today, hm))

\* lines 373-375
CompanyKey(company_name) ==
    IF Strip(company_name) = "" THEN "My Company" ELSE Strip(company_name)

\* the name check without .strip()
EmployeeNameEmpty(employee_name) == employee_name = ""

\* lines 377-378
EmployeeNameMissing(employee_name) == Strip(employee_name) = ""

\* the name comparison without .lower()
SameEmployeeExact(emp, name) == Strip(Get(emp, "name", NoStr).v) = name

\* line 428
SameEmployee(emp, name) == Lower(Strip(Get(emp, "name", NoStr).v)) = Lower(name)

\* the search that finds nobody
ExistingIndexNone(employees, name) == 0

\* lines 426-430: the index of the first employee with that name, 0 for None
ExistingIndex(employees, name) ==
    IF \E i \in 1..Len(employees) : SameEmployee(employees[i], name)
    THEN CHOOSE i \in 1..Len(employees) :
            /\ SameEmployee(employees[i], name)
            /\ \A j \in 1..(i - 1) : ~SameEmployee(employees[j], name)
    ELSE 0

\* the record written with the name as it was typed in a padded field
EmployeeRecordPadded(name, role, docs, history, entry) ==
    JDict(<< <<"name", JStr(" " \o name)>>, <<"role", JStr(role)>>,
             <<"docs", docs>>, <<"history", JList(Append(history, entry))>> >>)

\* lines 438-450
EmployeeRecord(name, role, docs, history, entry) ==
    JDict(<< <<"name", JStr(name)>>, <<"role", JStr(role)>>,
             <<"docs", docs>>, <<"history", JList(Append(history, entry))>> >>)

\* the record written at the end of the list, the matching one taken out
PutEmployeeMoved(employees, existing_index, name, role, docs, entry) ==
    IF existing_index # 0
    THEN Append(SubSeq(employees, 1, existing_index - 1)
                    \o SubSeq(employees, existing_index + 1, Len(employees)),
                EmployeeRecord(name, role, docs,
                               Get(employees[existing_index], "history", NoList).v, entry))
    ELSE Append(employees, EmployeeRecord(name, role, docs, <<>>, entry))

\* lines 432-455: the record replaces the matching one, or is appended
PutEmployeeAt(employees, existing_index, name, role, docs, entry) ==
    IF existing_index # 0
    THEN [employees EXCEPT ![existing_index] =
             EmployeeRecord(name, role, docs,
                            Get(employees[existing_index], "history", NoList).v, entry)]
    ELSE Append(employees, EmployeeRecord(name, role, docs, <<>>, entry))

\* lines 425-455
PutEmployee(employees, name, role, docs, entry) ==
    PutEmployeeAt(employees, ExistingIndex(employees, name), name, role, docs, entry)

NoCompany == JDict(<< <<"employees", NoList>> >>)

\* lines 385-458
PutCompany(companies, ckey, name, role, docs, entry) ==
    DictSet(companies, ckey,
            DictSet(Get(companies, ckey, NoCompany), "employees",
                    JList(PutEmployee(Get(Get(companies, ckey, NoCompany),
                                          "employees", NoList).v,
                                      name, role, docs, entry))))

\* lines 384-459: the store after the employee is written into it
UpsertEmployee(store, ckey, name, role, docs, now, hm) ==
    DictSet(store, "companies",
            PutCompany(Get(store, "companies", NoDict), ckey, name, role, docs,
                       HistoryEntry("Employee", docs, now, hm)))

\* line 378
NameRequired ==
    [raised |-> FALSE, summary |-> "Employee name is required.", pdf |-> JNull,
     rows |-> <<>>, msg |-> "Employee name is required.", errors |-> <<>>]

\* lines 462-471: what save_employee returns after save_store
EmployeeReturn(ckey, company, errors, now) ==
    IF CompanyReportRaises(company) THEN Raised
    ELSE [raised |-> FALSE,
          summary |-> build_company_summary(ckey, company, errors, now),
          pdf |-> JStr("company_" \o ckey \o "_summary.pdf"),
          rows |-> build_employee_table(ckey, company, now),
          msg |-> SavedMsg(errors),
          errors |-> errors]

\* lines 460-471
EmployeeWritten(ckey, errors, store) ==
    /\ disk' = save_store(store)
    /\ ret' = EmployeeReturn(ckey, Get(Get(store, "companies", NoDict), ckey, NoCompany),
                             errors, today)

\* save_employee, lines 355-471
save_employee(company_name, employee_name, role, form, hm) ==
    /\ saves < MaxSaves
    /\ saves' = saves + 1
    /\ call' = [op |-> "save_employee", company_name |-> company_name,
                employee_name |-> employee_name, role |-> role, form |-> form, hm |-> hm,
                at |-> today]
    /\ pre' = disk
    /\ today' = today
    /\ IF EmployeeNameMissing(employee_name)
       THEN /\ disk' = disk
            /\ ret' = NameRequired
       ELSE IF LoadRaises(disk)
       THEN /\ disk' = disk
            /\ ret' = Raised
       ELSE EmployeeWritten(CompanyKey(company_name), BuildErrors(form),
                            UpsertEmployee(load_store(disk), CompanyKey(company_name),
                                           Strip(employee_name), Strip(role),
                                           BuildDocs(form), today, hm))

(***************************************************************************)
(* Analytics and reminder preview.                                         *)
(***************************************************************************)
\* the documents of one profile or employee, in dict order
ItemsOf(type, name, company, docs) ==
    [i \in 1..Len(docs) |->
        [type |-> type, name |-> name, company |-> company,
         doc |-> docs[i][1], info |-> docs[i][2]]]

\* lines 604-607 (725-728)
EmployeeListDocs(cname, employees) ==
    Flatten([i \in 1..Len(employees) |->
                ItemsOf("Employee", OrDash(Get(employees[i], "name", NoStr)), cname,
                        Get(employees[i], "docs", NoDict).v)])

\* lines 602-603 (723-724)
AllEmployeeDocs(companies) ==
    Flatten([i \in 1..Len(companies) |->
                EmployeeListDocs(companies[i][1], Get(companies[i][2], "employees", NoList).v)])

\* the documents in the order lines 579-625 (694-749) visit them: every
\* profile's, then every employee's of every company
AllDocs(store) ==
    Flatten([i \in 1..Len(Get(store, "profiles", NoDict).v) |->
                ItemsOf("Profile", Get(store, "profiles", NoDict).v[i][1], "-",
                        Get(Get(store, "profiles", NoDict).v[i][2], "docs", NoDict).v)])
    \o AllEmployeeDocs(Get(store, "companies", NoDict).v)

\* lines 582, 608, 697-698, 729-730 raise on one of the documents
ItemsRaise(items) == \E i \in 1..Len(items) : DocRaises(items[i].info)

\* lines 582, 608
Evals(items, now) ==
    [i \in 1..Len(items) |-> [item |-> items[i], eva |-> EvalInfo(items[i].info, now)]]

\* lines 583-584 (609-610): the evaluations that are not {}
RECURSIVE ValidOnly(_)
ValidOnly(q) ==
    IF Len(q) = 0 THEN <<>>
    ELSE (IF IsEval(Head(q).eva) THEN <<Head(q)>> ELSE <<>>) \o ValidOnly(Tail(q))

\* lines 585, 611
CountStatus(q, status) == Cardinality({i \in 1..Len(q) : q[i].eva.status = status})

\* line 573
TotalEmployees(companies) ==
    Len(Flatten([i \in 1..Len(companies) |-> Get(companies[i][2], "employees", NoList).v]))

MaxUpcoming == 30

\* lines 586-599 (612-625), sorted by line 628
UpcomingRows(valid) ==
    SortByKey(6, [i \in 1..Len(valid) |->
                     <<JStr(valid[i].item.type), JStr(valid[i].item.name),
                       JStr(valid[i].item.company), JStr(valid[i].item.doc),
                       valid[i].eva.expiry, JInt(valid[i].eva.days_left),
                       JStr(valid[i].eva.status)>>])

\* the levels with the breakpoints 5 and 15 taken as moderate and high
RiskLevelBelow(risk_score) ==
    IF risk_score = 0 THEN "Risk level: Very low."
    ELSE IF risk_score < 5 THEN "Risk level: Low."
    ELSE IF risk_score < 15 THEN "Risk level: Moderate."
    ELSE "Risk level: High. Many documents are near expiry or expired."

\* lines 645-652
RiskLevel(risk_score) ==
    IF risk_score = 0 THEN "Risk level: Very low."
    ELSE IF risk_score <= 5 THEN "Risk level: Low."
    ELSE IF risk_score <= 15 THEN "Risk level: Moderate."
    ELSE "Risk level: High. Many documents are near expiry or expired."

\* lines 629-654
AnalyticsOf(now, total_profiles, total_employees, ok, near, expired, risk_score, rows) ==
    [raised |-> FALSE,
     text |-> JoinLines(
        <<"Analytics summary (Today: " \o FormatDate(now) \o ")",
          "",
          "Total personal profiles: " \o ToString(total_profiles),
          "Total employees (all companies): " \o ToString(total_employees),
          "",
          "Document status counts (profiles + employees):",
          "- OK: " \o ToString(ok),
          "- NEAR EXPIRY (<=30 days): " \o ToString(near),
          "- EXPIRED: " \o ToString(expired),
          "",
          "Simple risk score (higher is worse): " \o ToString(risk_score),
          RiskLevel(risk_score)>>),
     rows |-> SubSeq(rows, 1, IF Len(rows) < MaxUpcoming THEN Len(rows) ELSE MaxUpcoming),
     counts |-> [EXPIRED |-> expired, NEAR |-> near, OK |-> ok],
     risk_score |-> risk_score]

\* lines 572-654, valid being the evaluated documents
Analytics(store, valid, now) ==
    AnalyticsOf(now,
                Len(Get(store, "profiles", NoDict).v),
                TotalEmployees(Get(store, "companies", NoDict).v),
                CountStatus(valid, "OK"), CountStatus(valid, "NEAR EXPIRY"),
                CountStatus(valid, "EXPIRED"),
                CountStatus(valid, "EXPIRED") * 2 + CountStatus(valid, "NEAR EXPIRY"),
                UpcomingRows(valid))

AnalyticsItems(store, items, now) ==
    IF ItemsRaise(items) THEN Raised
    ELSE Analytics(store, ValidOnly(Evals(items, now)), now)

\* lines 568-654, on the loaded store
AnalyticsResult(store, now) == AnalyticsItems(store, AllDocs(store), now)

\* build_analytics writing back the store it loaded
build_analytics_saving ==
    /\ call' = [op |-> "build_analytics", at |-> today]
    /\ pre' = disk
    /\ ret' = IF LoadRaises(disk) THEN Raised ELSE AnalyticsResult(load_store(disk), today)
    /\ disk' = IF LoadRaises(disk) THEN disk ELSE save_store(load_store(disk))
    /\ UNCHANGED <<today, saves>>

\* build_analytics, lines 561-654
build_analytics ==
    /\ call' = [op |-> "build_analytics", at |-> today]
    /\ pre' = disk
    /\ ret' = IF LoadRaises(disk) THEN Raised ELSE AnalyticsResult(load_store(disk), today)
    /\ UNCHANGED <<disk, today, saves>>

DefaultWindow == 7

\* the preview counting from the day of the call
AsOfToday(as_of_date_str, now) == now

\* lines 662-672: the date the preview counts from
AsOfDate(as_of_date_str, now) ==
    IF parse_date(JStr(as_of_date_str)) = NoDate THEN now
    ELSE parse_date(JStr(as_of_date_str))

\* the window with a negative number of days taken as given
WindowDaysAsGiven(window_days) ==
    IF window_days = JNull THEN DefaultWindow ELSE window_days.v

\* lines 674-675
WindowDays(window_days) ==
    IF window_days = JNull \/ window_days.v < 0 THEN DefaultWindow ELSE window_days.v

\* lines 697-699 (729-731)
Dated(items) ==
    [i \in 1..Len(items) |->
        [item |-> items[i],
         reminder_days |-> IntOf(Get(items[i].info, "reminder_days", JInt(DefaultReminder))),
         expiry_date |-> parse_date(Get(items[i].info, "expiry", NoStr))]]

\* lines 700-705 (732-736): the documents inside the window
RECURSIVE InWindow(_, _, _)
InWindow(q, as_of_date, window) ==
    IF Len(q) = 0 THEN <<>>
    ELSE (IF \/ Head(q).expiry_date = NoDate
             \/ Head(q).expiry_date - as_of_date < 0
             \/ Head(q).expiry_date - as_of_date > window
          THEN <<>> ELSE <<Head(q)>>)
         \o InWindow(Tail(q), as_of_date, window)

\* lines 708-720 (737-749)
PreviewRows(kept, as_of_date) ==
    [i \in 1..Len(kept) |->
        <<JStr(kept[i].item.type), JStr(kept[i].item.name), JStr(kept[i].item.company),
          JStr(kept[i].item.doc), Get(kept[i].item.info, "expiry", NoStr),
          JInt(kept[i].reminder_days), JInt(kept[i].expiry_date - as_of_date),
          JStr(IF kept[i].expiry_date - as_of_date = kept[i].reminder_days
               THEN "YES" ELSE "SOON")>>]

\* lines 682-687, 751-759
PreviewOf(as_of_date, window, rows) ==
    [raised |-> FALSE,
     text |-> JoinLines(
        <<"Reminder preview from " \o FormatDate(as_of_date) \o " for the next "
              \o ToString(window) \o " days.",
          "A reminder fires when (expiry_date - today) equals reminder_days.",
          "",
          IF Len(rows) = 0 THEN "No reminders would fire in this window."
          ELSE "Total items in window: " \o ToString(Len(rows))>>),
     rows |-> SortByKey(7, rows)]

PreviewItems(items, as_of_date, window) ==
    IF ItemsRaise(items) THEN Raised
    ELSE PreviewOf(as_of_date, window,
                   PreviewRows(InWindow(Dated(items), as_of_date, window), as_of_date))

\* preview_reminders, lines 657-759, on the loaded store
Preview(store, as_of_date_str, window_days, now) ==
    PreviewItems(AllDocs(store), AsOfDate(as_of_date_str, now), WindowDays(window_days))

preview_reminders(as_of_date_str, window_days) ==
    /\ call' = [op |-> "preview_reminders", as_of_date_str |-> as_of_date_str,
                window_days |-> window_days, at |-> today]
    /\ pre' = disk
    /\ ret' = IF LoadRaises(disk) THEN Raised
              ELSE Preview(load_store(disk), as_of_date_str, window_days, today)
    /\ UNCHANGED <<disk, today, saves>>

(***************************************************************************)
(* Inputs.                                                                 *)
(***************************************************************************)
\* the day the calls are made on
Today0 == Strptime("2024-01-01")

\* a saved document
Doc(expiry, reminder_days) ==
    JDict(<< <<"expiry", JStr(expiry)>>, <<"reminder_days", reminder_days>> >>)

OldEntry ==
    JDict(<< <<"timestamp", JStr("2023-12-01 10:00")>>,
             <<"note", JStr("Profile updated with 1 documents.")>> >>)

\* the docs and history fields of a profile or employee record, each present
\* or not, well-formed or not
RecordFields ==
    {d \o h :
        d \in { <<>>,
                << <<"docs", JNull>> >>,
                << <<"docs", JDict(<< <<"Visa", Doc("2024-01-06", JInt(5))>> >>)>> >>,
                << <<"docs", JDict(<< <<"Visa", Doc("2024-01-06", JStr("abc"))>>,
                                      <<"Passport", JStr("2024-01-06")>> >>)>> >>,
                << <<"docs", NoList>> >> },
        h \in { <<>>,
                << <<"history", JList(<<OldEntry>>)>> >>,
                << <<"history", JStr("none")>> >> }}

ProfileRecords ==
    {JDict(f \o x) :
        f \in RecordFields,
        x \in { <<>>,
                << <<"Passport", Doc("2025-02-04", JInt(30))>>, <<"phone", JStr("050")>>,
                   <<"meta", NoDict>> >> }}

NonDicts == {JNull, JStr("x"), JInt(0), NoList}

ProfilesValues ==
    {NoDict}
    \cup {JDict(<< <<"Self", r>> >>) : r \in ProfileRecords \cup NonDicts}
    \cup {JDict(<< <<"Self", JStr("x")>>, <<" Wife ", r>> >>) : r \in ProfileRecords}
    \cup (NonDicts \ {JNull})

EmployeeRecords ==
    {JDict(n \o f) :
        n \in { <<>>,
                << <<"name", JStr(" John Doe ")>>, <<"role", JStr("PRO ")>> >>,
                << <<"name", JStr("Ann")>>, <<"role", JNull>> >>,
                << <<"name", JInt(7)>> >>,
                << <<"role", JStr("Driver")>>, <<"name", JStr("")>> >> },
        f \in RecordFields}
    \cup {JDict(<< <<"name", JStr("Bob")>>, <<"Visa", Doc("2024-01-06", JInt(5))>>,
                   <<"id", JInt(3)>> >>)}

EmployeesValues ==
    {JNull, JStr("x"), NoList, NoDict}
    \cup {JList(<<e>>) : e \in EmployeeRecords}
    \cup {JList(<<JStr("x"), e, JNull>>) : e \in EmployeeRecords}
    \cup {JDict(<< <<"1", e>> >>) : e \in EmployeeRecords}
    \cup {JDict(<< <<"1", e>>, <<"2", JStr("x")>> >>) : e \in EmployeeRecords}

CompaniesValues ==
    {NoDict, JDict(<< <<"Acme", JDict(<< <<"address", JStr("Dubai")>> >>)>> >>)}
    \cup {JDict(<< <<"Acme", JDict(<< <<"employees", v>> >>)>> >>) : v \in EmployeesValues}
    \cup {JDict(<< <<"Acme", c>> >>) : c \in NonDicts \cup {NoDict}}
    \cup (NonDicts \ {JNull})

\* a data file of the second version: profiles without a docs key, employees
\* keyed by id (src/backups/app_level3_backup.py)
FileV2 ==
    JDict(<< <<"profiles", JDict(<< <<"Self", JDict(<< <<"Visa", Doc("2024-01-06", JInt(5))>> >>)>> >>)>>,
             <<"companies", JDict(<< <<"Acme", JDict(<< <<"employees", JDict(<<
                 <<"1", JDict(<< <<"name", JStr("Ann")>>, <<"role", JStr("PRO")>>,
                                 <<"docs", JDict(<< <<"Visa", Doc("2024-01-06", JInt(5))>> >>)>> >>)>> >>)>> >>)>> >>)>> >>)

\* a data file of this version
FileV3 ==
    JDict(<< <<"profiles", JDict(<< <<"Wife", JDict(<<
                 <<"docs", JDict(<< <<"Passport", Doc("2025-02-04", JInt(30))>>,
                                    <<"Visa", Doc("2024-01-06", JInt(5))>> >>)>>,
                 <<"history", JList(<<OldEntry>>)>> >>)>> >>)>>,
             <<"companies", JDict(<< <<"Acme", JDict(<< <<"employees", JList(<<
                 JDict(<< <<"name", JStr("John Doe")>>, <<"role", JStr("")>>,
                          <<"docs", JDict(<< <<"Visa", Doc("2024-01-06", JInt(5))>> >>)>>,
                          <<"history", JList(<<OldEntry>>)>> >>),
                 JDict(<< <<"name", JStr("Ann")>>, <<"role", JStr("PRO")>>,
                          <<"docs", JDict(<< <<"Visa", Doc("soon", JInt(30))>> >>)>>,
                          <<"history", NoList>> >>) >>)>> >>)>> >>)>> >>)

\* a data file of this version edited by hand: a reminder that is no number
FileBadReminder ==
    JDict(<< <<"profiles", JDict(<< <<"Old", JDict(<<
                 <<"docs", JDict(<< <<"Visa", Doc("2024-01-06", JStr("abc"))>> >>)>>,
                 <<"history", JList(<<OldEntry>>)>> >>)>> >>)>>,
             <<"companies", NoDict>> >>)

\* what the data file may hold when load_store reads it
RawFiles ==
    {Missing, Corrupt, JNull, JInt(3), JStr("x"), JList(<<NoDict>>), FileV2, FileV3,
     FileBadReminder}
    \cup {JDict(<< <<"Self", r>>, <<"Visa", Doc("2024-01-06", JInt(5))>> >>) :
             r \in ProfileRecords \cup NonDicts}
    \cup {JDict(<< <<"profiles", p>> >>) : p \in ProfilesValues \cup {JNull}}
    \cup {JDict(<< <<"companies", c>>,
                   <<"Self", JDict(<< <<"Visa", Doc("2024-01-06", JInt(5))>> >>)>> >>) :
             c \in CompaniesValues \cup {JNull}}
    \cup {JDict(<< <<"profiles", p>>, <<"companies", c>>, <<"version", JInt(3)>> >>) :
             p \in ProfilesValues, c \in {NoDict, NoList, FileV2.v[2][2], FileV3.v[2][2]}}
    \cup {JDict(<< <<"companies", c>>, <<"profiles", NoDict>> >>) : c \in CompaniesValues}

\* the data files the application may start with
InitFiles ==
    {Missing, FileV2, FileV3, FileBadReminder, JDict(<< <<"profiles", NoList>> >>)}

\* the twelve text boxes of the form, as (date, reminder) per document type
Forms ==
    { <<<<"2024-06-01", "30">>, <<"2024-01-06", "5">>, <<"2024-07-01", "30">>, <<"", "abc">>,
        <<"", "30">>,
        <<"2024-03-01", "-5">> >>,
      <<<<"2024-02-30", "30">>, <<" 2025-02-04 ", "abc">>, <<" ", "">>,
        <<"2024-01-20", "">>, <<"2024-1-6", "4.5">>, <<"2024-03-01", " 1_0 ">> >> }

ProfileNames == {"", " ", " Wife "}
CompanyNames == {"", "Acme "}
EmployeeNames == {"", "  ", "john doe", " John Doe "}
WindowInputs == {JNull, JInt(5)}

(***************************************************************************)
(* The application: one call at a time.                                    *)
(***************************************************************************)
NoCall == [op |-> "none", at |-> Today0]
NoRet == [raised |-> FALSE]

Init ==
    /\ disk \in InitFiles
    /\ today = Today0
    /\ call = NoCall
    /\ pre = disk
    /\ ret = NoRet
    /\ saves = 0

Next ==
    \/ \E profile_name \in ProfileNames, form \in Forms :
          save_profile(profile_name, form, "09:15")
    \/ \E company_name \in CompanyNames, employee_name \in EmployeeNames, form \in Forms :
          save_employee(company_name, employee_name, " PRO ", form, "09:15")
    \/ build_analytics
    \/ \E window_days \in WindowInputs : preview_reminders("2024-01-01", window_days)

Spec == Init /\ [][Next]_vars

(***************************************************************************)
(* evaluate_doc alone, over expiry texts, reminder thresholds and days.    *)
(***************************************************************************)
EvalTodays == {Strptime("2023-12-31"), Today0, Strptime("2024-02-29")}

ExpiryInputs ==
    {"2023-12-31", "2024-01-01", "2024-01-30", "2024-01-31", "2024-02-01", " 2024-03-01 ",
     "2024-1-6", "2025-01-01", "2024-02-30", "", "soon", " ", "2023-02-29", "2024-13-01",
     "2024-00-10", "2024-01-32", "06-01-2024", "2024/01/06", "2024-01-06x", "20240106"}

ReminderInputs == {0, 5, 30, 60}

InitEval ==
    /\ disk = Missing
    /\ today \in EvalTodays
    /\ call = NoCall
    /\ pre = disk
    /\ ret = NoRet
    /\ saves = 0

\* one call of evaluate_doc, lines 158-181
EvaluateDoc(expiry_str, reminder_days) ==
    /\ call' = [op |-> "evaluate_doc", expiry_str |-> expiry_str,
                reminder_days |-> reminder_days, at |-> today]
    /\ ret' = [raised |-> FALSE, eva |-> evaluate_doc(JStr(expiry_str), reminder_days, today)]
    /\ UNCHANGED <<disk, today, pre, saves>>

\* one call of evaluate_doc with an expiry that is no text: None, a number, a
\* list or a dict, as info.get("expiry", "") gives for a hand-edited file
EvaluateDocValue(expiry, reminder_days) ==
    /\ call' = [op |-> "evaluate_doc(value)", expiry |-> expiry,
                reminder_days |-> reminder_days, at |-> today]
    /\ ret' = [raised |-> FALSE, eva |-> evaluate_doc(expiry, reminder_days, today)]
    /\ UNCHANGED <<disk, today, pre, saves>>

NextEval ==
    \/ \E expiry_str \in ExpiryInputs, reminder_days \in ReminderInputs :
          EvaluateDoc(expiry_str, reminder_days)
    \/ \E expiry \in {JNull, JInt(0), JInt(20240106), NoList, NoDict},
          reminder_days \in ReminderInputs :
          EvaluateDocValue(expiry, reminder_days)

SpecEval == InitEval /\ [][NextEval]_vars

(***************************************************************************)
(* load_store alone, over the data files it may find, and the file written *)
(* back from what it returned.                                             *)
(***************************************************************************)
InitNorm ==
    /\ disk \in RawFiles
    /\ today = Today0
    /\ call = NoCall
    /\ pre = disk
    /\ ret = NoRet
    /\ saves = 0

\* one call of load_store, lines 30-131
LoadStore ==
    /\ call.op # "load_store"
    /\ call' = [op |-> "load_store", at |-> today]
    /\ pre' = disk
    /\ ret' = IF LoadRaises(disk) THEN Raised
              ELSE [raised |-> FALSE, store |-> load_store(disk)]
    /\ UNCHANGED <<disk, today, saves>>

\* save_store of the store load_store returned, lines 134-137
SaveStore ==
    /\ call.op = "load_store"
    /\ ~ret.raised
    /\ call' = [op |-> "save_store", at |-> today]
    /\ pre' = disk
    /\ disk' = save_store(ret.store)
    /\ UNCHANGED <<today, ret, saves>>

NextNorm == LoadStore \/ SaveStore

SpecNorm == InitNorm /\ [][NextNorm]_vars

(***************************************************************************)
(* The reports alone, over data files the upserts write and over files     *)
(* edited by hand.                                                         *)
(***************************************************************************)
\* forms by what the report date 2024-01-01 makes of their documents: none;
\* two that expire the same day of 2300; one near expiry; two expired, one
\* that expires today and one 31 days ahead; five expired and one a year ahead
ReportForms ==
    << <<<<"", "">>, <<"2024-02-30", "">>, <<"soon", "5">>, <<" ", "">>, <<"", "7">>,
         <<"", "">> >>,
       <<<<"", "">>, <<"2300-01-01", "30">>, <<"", "">>, <<"2300-1-1", "">>, <<"", "">>,
         <<"", "">> >>,
       <<<<" 2024-01-06 ", "5">>, <<"", "">>, <<"", "">>, <<"", "">>, <<"", "">>, <<"", "">> >>,
       <<<<"2023-12-28", "3">>, <<"2023-12-31", "">>, <<"2024-01-01", "0">>,
         <<"2024-02-01", "30">>, <<"", "">>, <<"", "">> >>,
       <<<<"2023-12-20", "30">>, <<"2023-12-28", "30">>, <<"2023-12-28", "7">>,
         <<"2023-01-01", "">>, <<"2023-12-31", "1">>, <<"2025-01-01", "60">> >> >>

\* the store after save_profile of "Self" and "Wife" and save_employee of
\* "Ann" and "Bob" of "Acme", from the empty store
ReportStore(self, wife, ann, bob) ==
    UpsertEmployee(
        UpsertEmployee(
            UpsertProfile(
                UpsertProfile(_empty_store, "Self", BuildDocs(self), Today0, "09:15"),
                "Wife", BuildDocs(wife), Today0, "09:15"),
            "Acme", "Ann", "PRO", BuildDocs(ann), Today0, "09:15"),
        "Acme", "Bob", "", BuildDocs(bob), Today0, "09:15")

\* a data file of this version edited by hand: an expiry that is no date
\* beside two documents that expire the same day
FileEdited ==
    JDict(<< <<"profiles", JDict(<< <<"Self", JDict(<<
                 <<"docs", JDict(<< <<"Visa", Doc("soon", JInt(30))>>,
                                    <<"Passport", Doc("2024-01-06", JInt(5))>>,
                                    <<"Car Insurance", Doc("2024-01-06", JInt(7))>> >>)>>,
                 <<"history", NoList>> >>)>> >>)>>,
             <<"companies", NoDict>> >>)

\* the data files written by upserts alone, from the empty store
UpsertedFiles ==
    {save_store(ReportStore(ReportForms[s], ReportForms[w], ReportForms[e[1]],
                            ReportForms[e[2]])) :
        s \in 1..Len(ReportForms), w \in 1..Len(ReportForms),
        e \in {<<1, 2>>, <<3, 3>>, <<3, 4>>, <<5, 3>>}}
    \cup {save_store(
              UpsertEmployee(
                  UpsertEmployee(ReportStore(ReportForms[5], ReportForms[5], ReportForms[5],
                                             ReportForms[4]),
                                 "Acme", "Cy", "", BuildDocs(ReportForms[5]), Today0, "09:15"),
                  "Globex", "Di", "", BuildDocs(ReportForms[5]), Today0, "09:15"))}

ReportFiles == UpsertedFiles \cup {Missing, FileV2, FileV3, FileBadReminder, FileEdited}

InitReport ==
    /\ disk \in ReportFiles
    /\ today = Today0
    /\ call = NoCall
    /\ pre = disk
    /\ ret = NoRet
    /\ saves = 0

\* the table of lines 318-350 for a store
OverviewResult(store, now) ==
    IF OverviewRaises(store) THEN Raised
    ELSE [raised |-> FALSE, rows |-> build_profiles_overview_table(store, now)]

\* build_profiles_overview_table(load_store()), as line 272 calls it
OverviewTable ==
    /\ call' = [op |-> "build_profiles_overview_table", at |-> today]
    /\ pre' = disk
    /\ ret' = IF LoadRaises(disk) THEN Raised ELSE OverviewResult(load_store(disk), today)
    /\ UNCHANGED <<disk, today, saves>>

\* the table of lines 522-556 for a company
EmployeeTableResult(company_name, company, now) ==
    IF CompanyReportRaises(company) THEN Raised
    ELSE [raised |-> FALSE, rows |-> build_employee_table(company_name, company, now)]

\* build_employee_table(company_name, company), as line 465 calls it
EmployeeTable(company_name) ==
    /\ call' = [op |-> "build_employee_table", company_name |-> company_name, at |-> today]
    /\ pre' = disk
    /\ ret' = IF LoadRaises(disk) THEN Raised
              ELSE EmployeeTableResult(company_name,
                                       Get(Get(load_store(disk), "companies", NoDict),
                                           company_name, NoCompany), today)
    /\ UNCHANGED <<disk, today, saves>>

NextReport ==
    \/ OverviewTable
    \/ EmployeeTable("Acme")
    \/ build_analytics
    \/ \E as_of_date_str \in {"", "2023-12-25", " 2024-01-06 "},
          window_days \in {JNull, JInt(0), JInt(12), JInt(-1)} :
          preview_reminders(as_of_date_str, window_days)

SpecReport == InitReport /\ [][NextReport]_vars

(***************************************************************************)
(* Two upserts at once.  Each handler reads the data file (load_store) and *)
(* later writes it whole (save_store); between the two it works on its own *)
(* copy.  `call` holds each handler's request and position, `pre` the file *)
(* it read, `ret` what it returned and the rank of its write.              *)
(***************************************************************************)
InitRace ==
    /\ disk \in {Missing, FileV3}
    /\ today = Today0
    /\ call \in [{1, 2} ->
                   {[op |-> "save_profile", profile_name |-> n, form |-> f, pc |-> "load"] :
                       n \in {"", " Wife "}, f \in Forms}
                   \cup {[op |-> "save_employee", company_name |-> "Acme ",
                          employee_name |-> n, role |-> " PRO ", form |-> f, pc |-> "load"] :
                            n \in {"john doe", " Ann "}, f \in Forms}]
    /\ pre = [p \in {1, 2} |-> Missing]
    /\ ret = [p \in {1, 2} |-> NoRet]
    /\ saves = 0

\* store = load_store(), line 206 (383)
RaceLoad(p) ==
    /\ call[p].pc = "load"
    /\ call' = [call EXCEPT ![p].pc = "save"]
    /\ pre' = [pre EXCEPT ![p] = disk]
    /\ UNCHANGED <<disk, today, ret, saves>>

\* lines 219-263 (398-460): the handler's copy of the store with its entity
\* written into it
RaceStore(store, req, now, hm) ==
    IF req.op = "save_profile"
    THEN UpsertProfile(store, ProfileKey(req.profile_name), BuildDocs(req.form), now, hm)
    ELSE UpsertEmployee(store, CompanyKey(req.company_name), Strip(req.employee_name),
                        Strip(req.role), BuildDocs(req.form), now, hm)

\* the handler reading the data file again when it writes
RaceSaveFresh(p) ==
    /\ call[p].pc = "save"
    /\ call' = [call EXCEPT ![p].pc = "done"]
    /\ disk' = save_store(RaceStore(load_store(disk), call[p], today,
                                    IF p = 1 THEN "09:15" ELSE "09:16"))
    /\ saves' = saves + 1
    /\ ret' = [ret EXCEPT ![p] = [raised |-> FALSE, msg |-> SavedMsg(BuildErrors(call[p].form)),
                                  rank |-> saves + 1]]
    /\ UNCHANGED <<today, pre>>

\* save_store(store) and the message returned, lines 263-278 (460-471)
RaceSave(p) ==
    /\ call[p].pc = "save"
    /\ call' = [call EXCEPT ![p].pc = "done"]
    /\ disk' = save_store(RaceStore(load_store(pre[p]), call[p], today,
                                    IF p = 1 THEN "09:15" ELSE "09:16"))
    /\ saves' = saves + 1
    /\ ret' = [ret EXCEPT ![p] = [raised |-> FALSE, msg |-> SavedMsg(BuildErrors(call[p].form)),
                                  rank |-> saves + 1]]
    /\ UNCHANGED <<today, pre>>

NextRace == \E p \in {1, 2} : RaceLoad(p) \/ RaceSave(p)

SpecRace == InitRace /\ [][NextRace]_vars

(***************************************************************************)
(* Properties.  `call`, `pre` and `ret` record the last call, the data     *)
(* file it started from and what it returned; `disk` is the data file      *)
(* after it.                                                               *)
(***************************************************************************)
\* p is a prefix of q
IsPrefix(p, q) == Len(p) <= Len(q) /\ SubSeq(q, 1, Len(p)) = p

StartsWith(s, p) == Len(s) >= Len(p) /\ SubSeq(s, 1, Len(p)) = p

\* the profiles, and the employees of a company, of a store
ProfilesIn(store) == Get(store, "profiles", NoDict)

EmployeesIn(store, ckey) ==
    Get(Get(Get(store, "companies", NoDict), ckey, NoCompany), "employees", NoList).v

HistoryOf(rec) == Get(rec, "history", NoList).v

\* the last call was an upsert that reached save_store
ProfileSaved == call.op = "save_profile" /\ ~LoadRaises(pre)

EmployeeSaved ==
    call.op = "save_employee" /\ Strip(call.employee_name) # "" /\ ~LoadRaises(pre)

\* the keys the last upsert wrote under
SavedProfileKey ==
    IF Strip(call.profile_name) = "" THEN "Self" ELSE Strip(call.profile_name)

SavedCompanyKey ==
    IF Strip(call.company_name) = "" THEN "My Company" ELSE Strip(call.company_name)

\* the employees of the target company before and after the last upsert
EmployeesBefore == EmployeesIn(load_store(pre), SavedCompanyKey)

EmployeesAfter == EmployeesIn(disk, SavedCompanyKey)

\* the positions before the upsert whose trimmed name equals the submitted
\* one, letter case aside
Matches ==
    {i \in 1..Len(EmployeesBefore) :
        Lower(Strip(Get(EmployeesBefore[i], "name", NoStr).v))
            = Lower(Strip(call.employee_name))}

FirstMatch == CHOOSE i \in Matches : \A j \in Matches : i <= j

\* the position of the employee the last upsert wrote
SavedIndex == IF Matches # {} THEN FirstMatch ELSE Len(EmployeesAfter)

\* the record, and the history before the call, of the entity the last
\* upsert wrote
SavedRecord ==
    IF call.op = "save_profile" THEN Get(ProfilesIn(disk), SavedProfileKey, NoProfile)
    ELSE EmployeesAfter[SavedIndex]

HistoryBefore ==
    IF call.op = "save_profile"
    THEN HistoryOf(Get(ProfilesIn(load_store(pre)), SavedProfileKey, NoProfile))
    ELSE IF Matches # {} THEN HistoryOf(EmployeesBefore[FirstMatch]) ELSE <<>>

SavedDocs == Get(SavedRecord, "docs", NoDict)

\* the fields of the submitted form whose date parses
Parsable == {i \in 1..Len(DOC_TYPES) : parse_date(JStr(call.form[i][1])) # NoDate}

\* the errors the last upsert returned about document type i
ErrorsAbout(i) ==
    {k \in 1..Len(ret.errors) : StartsWith(ret.errors[k], DOC_TYPES[i] \o ":")}

\* C1: for a parsable expiry date E, a current date T and a reminder
\* threshold R, evaluate_doc returns days_left = E - T and a status decided by
\* days_left alone: EXPIRED iff days_left < 0, NEAR EXPIRY iff
\* 0 <= days_left <= 30, OK iff days_left > 30; another R gives the same status.
C1_StatusByDaysLeft ==
    (call.op = "evaluate_doc" /\ parse_date(JStr(call.expiry_str)) # NoDate) =>
        /\ IsEval(ret.eva)
        /\ ret.eva.days_left = parse_date(JStr(call.expiry_str)) - call.at
        /\ FormatDate(call.at + ret.eva.days_left)
               = FormatDate(Strptime(Strip(call.expiry_str)))
        /\ (ret.eva.status = "EXPIRED") <=> (ret.eva.days_left < 0)
        /\ (ret.eva.status = "NEAR EXPIRY")
               <=> (0 <= ret.eva.days_left /\ ret.eva.days_left <= 30)
        /\ (ret.eva.status = "OK") <=> (ret.eva.days_left > 30)
        /\ \A r \in ReminderInputs :
               evaluate_doc(JStr(call.expiry_str), r, call.at).status = ret.eva.status

\* evaluate_doc was called 30 days before the expiry, with a threshold of 5
C1_Witness ==
    /\ call.op = "evaluate_doc"
    /\ call.reminder_days = 5
    /\ IsEval(ret.eva)
    /\ ret.eva.days_left = 30
    /\ ret.eva.status = "NEAR EXPIRY"

\* C2: normalization is idempotent: the store load_store returns, written
\* back and loaded again, is returned unchanged.
C2_NormalizeIdempotent ==
    (call.op = "load_store" /\ ~ret.raised) =>
        /\ ~LoadRaises(save_store(ret.store))
        /\ load_store(save_store(ret.store)) = ret.store

\* load_store returned a store that differs from the file, with a profile
\* that has documents and a company that has an employee
C2_Witness ==
    /\ call.op = "load_store"
    /\ ~ret.raised
    /\ ret.store # pre
    /\ \E i \in 1..Len(ProfilesIn(ret.store).v) :
          Len(Get(ProfilesIn(ret.store).v[i][2], "docs", NoDict).v) > 0
    /\ Len(EmployeesIn(ret.store, "Acme")) > 0

\* the records of an id-keyed mapping of employees, as a list of them would
\* be normalized
MappingRecords(items) == CleanEmployeeList([j \in 1..Len(items) |-> items[j][2]])

\* C3: a company whose employees value is an id-keyed mapping of records is
\* normalized as a list of these records is: every record is an employee of
\* the company in the store load_store returns.
C3_MappingEmployeesKept ==
    (call.op = "load_store" /\ ~ret.raised) =>
        \A i \in 1..Len(RawCompanies(RawDict(pre)).v) :
            LET c == RawCompanies(RawDict(pre)).v[i]
                employees == Get(c[2], "employees", NoList)
            IN  ( /\ IsDict(c[2])
                  /\ IsDict(employees)
                  /\ \A j \in 1..Len(employees.v) :
                        IsDict(employees.v[j][2]) => ~EmployeeRaises(employees.v[j][2]) )
                => EmployeesIn(ret.store, c[1]) = MappingRecords(employees.v)

\* C4: load_store never raises, and returns the empty store for a file whose
\* top-level value is not a mapping or that cannot be read.
C4_NormalizeNeverRaises ==
    call.op = "load_store" =>
        /\ ~ret.raised
        /\ ~IsDict(pre) => ret.store = _empty_store

\* C5: save_employee with an empty or blank employee name returns the
\* failure message and leaves the data file as it was.
C5_MissingNameWritesNothing ==
    (call.op = "save_employee" /\ Strip(call.employee_name) = "") =>
        /\ disk = pre
        /\ ~ret.raised
        /\ ret.summary = "Employee name is required."
        /\ ret.msg = "Employee name is required."
        /\ ret.pdf = JNull
        /\ ret.rows = <<>>

\* save_employee was called with a blank name, a form with a valid document
\* and a company the data file does not have
C5_Witness ==
    /\ call.op = "save_employee"
    /\ call.employee_name = "  "
    /\ call.form[2][1] = "2024-01-06"
    /\ pre = FileV3
    /\ ~Has(Get(disk, "companies", NoDict), SavedCompanyKey)

\* C6: an employee upsert matches the trimmed name, letter case aside, within
\* the company: the first match is replaced at its position with the old
\* history plus one entry and the other employees are left as they were; with
\* no match the record is appended with a history of one entry.
C6_UpsertMatchesByName ==
    EmployeeSaved =>
        IF Matches # {}
        THEN /\ Len(EmployeesAfter) = Len(EmployeesBefore)
             /\ \A i \in 1..Len(EmployeesBefore) :
                   i # FirstMatch => EmployeesAfter[i] = EmployeesBefore[i]
             /\ Get(EmployeesAfter[FirstMatch], "name", JNull)
                   = JStr(Strip(call.employee_name))
             /\ Len(HistoryOf(EmployeesAfter[FirstMatch]))
                   = Len(HistoryOf(EmployeesBefore[FirstMatch])) + 1
             /\ IsPrefix(HistoryOf(EmployeesBefore[FirstMatch]),
                         HistoryOf(EmployeesAfter[FirstMatch]))
        ELSE /\ Len(EmployeesAfter) = Len(EmployeesBefore) + 1
             /\ IsPrefix(EmployeesBefore, EmployeesAfter)
             /\ Get(EmployeesAfter[Len(EmployeesAfter)], "name", JNull)
                   = JStr(Strip(call.employee_name))
             /\ Len(HistoryOf(EmployeesAfter[Len(EmployeesAfter)])) = 1

\* "john doe" was saved into a company without employees, then " John Doe ":
\* the company has one employee, named "John Doe", with a history of 2
C6_Witness ==
    /\ EmployeeSaved
    /\ call.employee_name = " John Doe "
    /\ Len(EmployeesBefore) = 1
    /\ Get(EmployeesBefore[1], "name", JNull) = JStr("john doe")
    /\ Len(HistoryOf(EmployeesBefore[1])) = 1
    /\ Len(EmployeesAfter) = 1
    /\ Get(EmployeesAfter[1], "name", JNull) = JStr("John Doe")
    /\ Len(HistoryOf(EmployeesAfter[1])) = 2

\* the history of each employee of `before` is a prefix of the history of the
\* employee at its position in `after`
EmployeeHistoriesKept(before, after) ==
    /\ Len(before) <= Len(after)
    /\ \A j \in 1..Len(before) : IsPrefix(HistoryOf(before[j]), HistoryOf(after[j]))

\* the history of every profile and of every employee (by company and
\* position) of the store `before` is a prefix of its history in `after`
HistoriesKept(before, after) ==
    /\ \A i \in 1..Len(ProfilesIn(before).v) :
          IsPrefix(HistoryOf(ProfilesIn(before).v[i][2]),
                   HistoryOf(Get(ProfilesIn(after), ProfilesIn(before).v[i][1], NoProfile)))
    /\ \A i \in 1..Len(Get(before, "companies", NoDict).v) :
          EmployeeHistoriesKept(EmployeesIn(before, Get(before, "companies", NoDict).v[i][1]),
                                EmployeesIn(after, Get(before, "companies", NoDict).v[i][1]))

\* in one step, the histories of the data file are kept
HistoryKept ==
    (~LoadRaises(disk) /\ ~LoadRaises(disk')) =>
        HistoriesKept(load_store(disk), load_store(disk'))

\* C7: history is append-only: over every step of every behaviour, each
\* profile's and each employee's history before the step is a prefix of its
\* history after it, so the same holds between any two states in order.
C7_HistoryAppendOnly == [][HistoryKept]_vars

\* two upserts of the profile "Wife" were made on a file where it had one
\* history entry: it has three, the old one first
C7_Witness ==
    /\ saves = 2
    /\ ProfileSaved
    /\ SavedProfileKey = "Wife"
    /\ Len(HistoryBefore) = 2
    /\ Len(HistoryOf(SavedRecord)) = 3
    /\ HistoryOf(SavedRecord)[1] = OldEntry

\* C8: an upsert that reaches save_store adds exactly one entry to the history
\* of the entity it writes; the entry carries the time of the call and its
\* note states the number of documents saved for the entity, which is the
\* number of submitted fields whose date parses.
C8_OneEntryPerUpsert ==
    (ProfileSaved \/ EmployeeSaved) =>
        /\ Len(HistoryOf(SavedRecord)) = Len(HistoryBefore) + 1
        /\ IsPrefix(HistoryBefore, HistoryOf(SavedRecord))
        /\ Get(HistoryOf(SavedRecord)[Len(HistoryBefore) + 1], "note", JNull)
              = JStr((IF call.op = "save_profile" THEN "Profile" ELSE "Employee")
                     \o " updated with " \o ToString(Len(SavedDocs.v)) \o " documents.")
        /\ Get(HistoryOf(SavedRecord)[Len(HistoryBefore) + 1], "timestamp", JNull)
              = JStr(FormatDate(call.at) \o " " \o call.hm)
        /\ Len(SavedDocs.v) = Cardinality(Parsable)

\* an employee with one history entry was saved again with a form of which
\* four dates parse: the second entry says 4 documents
C8_Witness ==
    /\ EmployeeSaved
    /\ Len(HistoryBefore) = 1
    /\ Cardinality(Parsable) = 4
    /\ Get(HistoryOf(SavedRecord)[2], "note", JNull)
          = JStr("Employee updated with 4 documents.")

\* C9: per field of an upsert, an empty date is skipped without an error, a
\* date that does not parse adds one error and its document type is not
\* saved, and the saved documents are exactly the types whose date parses.
C9_SavedDocsAreParsableDates ==
    (ProfileSaved \/ EmployeeSaved) =>
        /\ {SavedDocs.v[j][1] : j \in 1..Len(SavedDocs.v)}
              = {DOC_TYPES[i] : i \in Parsable}
        /\ Len(SavedDocs.v) = Cardinality(Parsable)
        /\ \A i \in Parsable :
              Get(Get(SavedDocs, DOC_TYPES[i], NoDict), "expiry", JNull)
                 = JStr(Strip(call.form[i][1]))
        /\ ~ret.raised =>
              \A i \in 1..Len(DOC_TYPES) :
                 /\ call.form[i][1] = "" => ErrorsAbout(i) = {}
                 /\ (call.form[i][1] # "" /\ i \notin Parsable) =>
                       /\ Cardinality(ErrorsAbout(i)) = 1
                       /\ \A k \in ErrorsAbout(i) :
                             ret.errors[k] = DOC_TYPES[i] \o ": invalid date (use YYYY-MM-DD)."

\* a profile was saved from a form with two dates that do not parse and four
\* that do: the four documents are saved, each bad date has its error
C9_Witness ==
    /\ ProfileSaved
    /\ ~ret.raised
    /\ call.form[1][1] = "2024-02-30"
    /\ call.form[3][1] = " "
    /\ Cardinality(ErrorsAbout(1)) = 1
    /\ Cardinality(ErrorsAbout(3)) = 1
    /\ ~Has(SavedDocs, "Emirates ID")
    /\ Has(SavedDocs, "Visa")
    /\ Len(SavedDocs.v) = 4

\* C10: in an upsert, a document whose date parses and whose reminder text is
\* not an integer is saved with reminder_days = 30 and one error; an empty
\* reminder text gives reminder_days = 30 and no error.
C10_BadReminderDefaults ==
    (ProfileSaved \/ EmployeeSaved) =>
        \A i \in Parsable :
            /\ call.form[i][2] = "" =>
                  /\ Get(Get(SavedDocs, DOC_TYPES[i], NoDict), "reminder_days", JNull) = JInt(30)
                  /\ ~ret.raised => ErrorsAbout(i) = {}
            /\ (call.form[i][2] # "" /\ ~IntStrOk(call.form[i][2])) =>
                  /\ Get(Get(SavedDocs, DOC_TYPES[i], NoDict), "reminder_days", JNull) = JInt(30)
                  /\ ~ret.raised =>
                        /\ Cardinality(ErrorsAbout(i)) = 1
                        /\ \A k \in ErrorsAbout(i) :
                              ret.errors[k] = DOC_TYPES[i]
                                 \o ": invalid reminder days, using 30 by default."

\* an employee was saved with the reminders "abc" and "4.5" on dates that
\* parse: both documents are saved with 30, each with its error
C10_Witness ==
    /\ EmployeeSaved
    /\ ~ret.raised
    /\ call.form[2] = <<" 2025-02-04 ", "abc">>
    /\ call.form[5] = <<"2024-1-6", "4.5">>
    /\ Get(Get(SavedDocs, "Visa", NoDict), "reminder_days", JNull) = JInt(30)
    /\ Get(Get(SavedDocs, "Car Insurance", NoDict), "reminder_days", JNull) = JInt(30)
    /\ Cardinality(ErrorsAbout(2)) = 1
    /\ Cardinality(ErrorsAbout(5)) = 1
    /\ ErrorsAbout(4) = {}

\* C11: every document an upsert stores has an integer reminder threshold that
\* is not negative, whatever reminder texts were submitted.
C11_SavedRemindersNotNegative ==
    (ProfileSaved \/ EmployeeSaved) =>
        \A j \in 1..Len(SavedDocs.v) :
            /\ Get(SavedDocs.v[j][2], "reminder_days", JNull).k = "int"
            /\ Get(SavedDocs.v[j][2], "reminder_days", JNull).v >= 0

\* C12: no operation raises: on every data file load_store returns a store
\* for, the upserts with their summaries and tables, the analytics and the
\* reminder preview return a result.
C12_ReportsNeverRaise ==
    (call.op \in {"save_profile", "save_employee", "build_analytics", "preview_reminders"}
        /\ ~LoadRaises(pre)) => ~ret.raised

\* the last call built an overview table: of the profiles, or of the
\* employees of a company
TableBuilt ==
    call.op \in {"build_profiles_overview_table", "build_employee_table"} /\ ~ret.raised

\* the cell of a table row that holds days_left, or "-" without a valid document
DaysCell(row) == IF call.op = "build_profiles_overview_table" THEN row[4] ELSE row[6]

\* C13: the overview table is sorted ascending by days_left and every entity
\* without a valid document comes after every entity that has one, however
\* large days_left is.
C13_NoValidDocsSortLast ==
    TableBuilt =>
        \A i \in 1..Len(ret.rows) : \A j \in (i + 1)..Len(ret.rows) :
            /\ (DaysCell(ret.rows[i]).k = "int" /\ DaysCell(ret.rows[j]).k = "int")
                  => DaysCell(ret.rows[i]).v <= DaysCell(ret.rows[j]).v
            /\ ~(DaysCell(ret.rows[i]).k # "int" /\ DaysCell(ret.rows[j]).k = "int")

\* the entities behind the rows of the last table, as (name, docs), and the
\* cells of a row that hold the name and the document
TableEntities ==
    IF call.op = "build_profiles_overview_table"
    THEN [i \in 1..Len(ProfilesIn(load_store(pre)).v) |->
             [name |-> ProfilesIn(load_store(pre)).v[i][1],
              docs |-> Get(ProfilesIn(load_store(pre)).v[i][2], "docs", NoDict).v]]
    ELSE [i \in 1..Len(EmployeesIn(load_store(pre), call.company_name)) |->
             [name |-> Get(EmployeesIn(load_store(pre), call.company_name)[i], "name", NoStr).v,
              docs |-> Get(EmployeesIn(load_store(pre), call.company_name)[i],
                           "docs", NoDict).v]]

NameCell(row) == IF call.op = "build_profiles_overview_table" THEN row[1] ELSE row[2]

DocCell(row) == IF call.op = "build_profiles_overview_table" THEN row[2] ELSE row[4]

\* days_left of a stored document on the day of the call, for an expiry that parses
DaysLeftOf(info) == parse_date(Get(info, "expiry", NoStr)) - call.at

\* the positions of the documents of an entity whose expiry parses, and those
\* among them with the least days_left
ValidAt(docs) ==
    {k \in 1..Len(docs) : parse_date(Get(docs[k][2], "expiry", NoStr)) # NoDate}

SoonestAt(docs) ==
    {k \in ValidAt(docs) :
        \A m \in ValidAt(docs) : DaysLeftOf(docs[k][2]) <= DaysLeftOf(docs[m][2])}

\* the row of an entity names the first of its documents with the least
\* days_left, or is the NO VALID DOCS row when no document has a date
RowNamesSoonest(row, docs) ==
    IF ValidAt(docs) = {}
    THEN /\ DocCell(row) = JStr("-")
         /\ DaysCell(row) = JStr("-")
         /\ row[Len(row)] = JStr("NO VALID DOCS")
    ELSE /\ DocCell(row) \in {JStr(docs[k][1]) : k \in SoonestAt(docs)}
         /\ \A k \in SoonestAt(docs) :
               (\A m \in SoonestAt(docs) : k <= m) => DocCell(row) = JStr(docs[k][1])
         /\ \A k \in SoonestAt(docs) : DaysCell(row) = JInt(DaysLeftOf(docs[k][2]))
         /\ row[Len(row)] # JStr("NO VALID DOCS")

\* C14: the row of an entity names the document with the least days_left among
\* its documents whose expiry parses, the first of them in the order of the
\* document map when several have the least; with no such document the row is
\* the NO VALID DOCS row.
C14_RowNamesSoonestDocument ==
    TableBuilt =>
        /\ Len(ret.rows) = Len(TableEntities)
        /\ \A i \in 1..Len(TableEntities) :
              \E r \in 1..Len(ret.rows) :
                 /\ NameCell(ret.rows[r]) = JStr(IF TableEntities[i].name = "" THEN "-"
                                                 ELSE TableEntities[i].name)
                 /\ RowNamesSoonest(ret.rows[r], TableEntities[i].docs)

\* the table of a hand-edited file was built: of Self's documents the first
\* has no date and the next two expire the same day, and the row names the
\* first of the two
C14_Witness ==
    /\ TableBuilt
    /\ pre = FileEdited
    /\ call.op = "build_profiles_overview_table"
    /\ ValidAt(TableEntities[1].docs) = {2, 3}
    /\ SoonestAt(TableEntities[1].docs) = {2, 3}
    /\ ret.rows[1][2] = JStr("Passport")

EndsWith(s, p) == Len(s) >= Len(p) /\ SubSeq(s, Len(s) - Len(p) + 1, Len(s)) = p

\* every document of a store: of a profile (company "-"), or of an employee
\* of a company, with its type and its stored fields
StoredDocs(store) ==
    UNION {{[type |-> "Profile", name |-> ProfilesIn(store).v[i][1], company |-> "-",
             doc |-> Get(ProfilesIn(store).v[i][2], "docs", NoDict).v[k][1],
             info |-> Get(ProfilesIn(store).v[i][2], "docs", NoDict).v[k][2]] :
               k \in 1..Len(Get(ProfilesIn(store).v[i][2], "docs", NoDict).v)} :
             i \in 1..Len(ProfilesIn(store).v)}
    \cup UNION {UNION {{[type |-> "Employee",
                         name |-> Get(EmployeesIn(store, c)[i], "name", NoStr).v,
                         company |-> c,
                         doc |-> Get(EmployeesIn(store, c)[i], "docs", NoDict).v[k][1],
                         info |-> Get(EmployeesIn(store, c)[i], "docs", NoDict).v[k][2]] :
                           k \in 1..Len(Get(EmployeesIn(store, c)[i], "docs", NoDict).v)} :
                         i \in 1..Len(EmployeesIn(store, c))} :
                  c \in {Get(store, "companies", NoDict).v[n][1] :
                            n \in 1..Len(Get(store, "companies", NoDict).v)}}

\* the status the spec gives to days_left
StatusFor(days_left) ==
    IF days_left < 0 THEN "EXPIRED"
    ELSE IF 0 <= days_left /\ days_left <= 30 THEN "NEAR EXPIRY"
    ELSE "OK"

\* the number of documents whose expiry parses and has that status on the
\* day of the call
Tally(docs, status) ==
    Cardinality({d \in docs :
                    /\ parse_date(Get(d.info, "expiry", NoStr)) # NoDate
                    /\ StatusFor(DaysLeftOf(d.info)) = status})

LevelOf(score) ==
    IF score = 0 THEN "Risk level: Very low."
    ELSE IF 1 <= score /\ score <= 5 THEN "Risk level: Low."
    ELSE IF 6 <= score /\ score <= 15 THEN "Risk level: Moderate."
    ELSE "Risk level: High. Many documents are near expiry or expired."

\* the end of the analytics text for these numbers of documents
TalliesTold(text, ok, near, expired) ==
    EndsWith(text,
             "\n- OK: " \o ToString(ok)
             \o "\n- NEAR EXPIRY (<=30 days): " \o ToString(near)
             \o "\n- EXPIRED: " \o ToString(expired)
             \o "\n\nSimple risk score (higher is worse): " \o ToString(2 * expired + near)
             \o "\n" \o LevelOf(2 * expired + near))

\* C15: analytics counts every document of every profile and employee whose
\* expiry parses once, as EXPIRED, NEAR EXPIRY or OK; the risk score is
\* 2 * EXPIRED + NEAR EXPIRY and the level is very low for 0, low for 1..5,
\* moderate for 6..15 and high above 15.
C15_AnalyticsTallyAndRisk ==
    (call.op = "build_analytics" /\ ~ret.raised) =>
        TalliesTold(ret.text,
                    Tally(StoredDocs(load_store(pre)), "OK"),
                    Tally(StoredDocs(load_store(pre)), "NEAR EXPIRY"),
                    Tally(StoredDocs(load_store(pre)), "EXPIRED"))

\* analytics ran on a store with 2 expired documents and 3 near expiry: the
\* score is 7 and the level moderate
C15_Witness ==
    /\ call.op = "build_analytics"
    /\ ~ret.raised
    /\ Tally(StoredDocs(load_store(pre)), "EXPIRED") = 2
    /\ Tally(StoredDocs(load_store(pre)), "NEAR EXPIRY") = 3
    /\ EndsWith(ret.text, "Simple risk score (higher is worse): 7\nRisk level: Moderate.")

\* the date and the window the last preview was asked for, 7 days standing
\* for a window that is absent or negative
PreviewDate == parse_date(JStr(call.as_of_date_str))

PreviewWindow ==
    IF call.window_days = JNull \/ call.window_days.v < 0 THEN 7 ELSE call.window_days.v

\* the documents whose expiry parses and lies 0..window days after the date
DueWithin(docs, as_of_date, window) ==
    {d \in docs :
        /\ parse_date(Get(d.info, "expiry", NoStr)) # NoDate
        /\ 0 <= parse_date(Get(d.info, "expiry", NoStr)) - as_of_date
        /\ parse_date(Get(d.info, "expiry", NoStr)) - as_of_date <= window}

\* the preview row of a document: who and what, days_left counted from the
\* date, YES when days_left is the reminder threshold and SOON otherwise
IsRowOf(row, d, as_of_date) ==
    /\ row[1] = JStr(d.type)
    /\ row[2] = JStr(IF d.name = "" THEN "-" ELSE d.name)
    /\ row[3] = JStr(d.company)
    /\ row[4] = JStr(d.doc)
    /\ row[5] = Get(d.info, "expiry", NoStr)
    /\ row[6] = Get(d.info, "reminder_days", JInt(30))
    /\ row[7] = JInt(parse_date(Get(d.info, "expiry", NoStr)) - as_of_date)
    /\ row[8] = JStr(IF row[7] = row[6] THEN "YES" ELSE "SOON")

\* the rows are those of the documents due, one for each, by days_left
RowsAreDue(rows, due, as_of_date) ==
    /\ Len(rows) = Cardinality(due)
    /\ \A d \in due : \E r \in 1..Len(rows) : IsRowOf(rows[r], d, as_of_date)
    /\ \A r \in 1..Len(rows) : \E d \in due : IsRowOf(rows[r], d, as_of_date)
    /\ \A r \in 1..(Len(rows) - 1) : rows[r][7].v <= rows[r + 1][7].v

\* C16: the reminder preview for a date D and a window W has a row for a
\* document iff its expiry parses and 0 <= expiry - D <= W, counted from D and
\* not from the day of the call; a row says YES iff days_left equals the
\* reminder threshold of the document and SOON otherwise; the rows are in
\* ascending order of days_left.
C16_PreviewWindowFromAsOfDate ==
    (call.op = "preview_reminders" /\ ~ret.raised /\ PreviewDate # NoDate) =>
        RowsAreDue(ret.rows, DueWithin(StoredDocs(load_store(pre)), PreviewDate, PreviewWindow),
                   PreviewDate)

\* a preview from 2023-12-25, a week before the day of the call, for 12 days:
\* it has a document that expired on 2023-12-28, a YES since its threshold is
\* 3, and one that expires on 2024-01-06, the last day of the window
C16_Witness ==
    /\ call.op = "preview_reminders"
    /\ ~ret.raised
    /\ call.as_of_date_str = "2023-12-25"
    /\ call.at = Today0
    /\ call.window_days = JInt(12)
    /\ \E r \in 1..Len(ret.rows) :
          /\ ret.rows[r][5] = JStr("2023-12-28")
          /\ ret.rows[r][7] = JInt(3)
          /\ ret.rows[r][8] = JStr("YES")
    /\ \E r \in 1..Len(ret.rows) :
          /\ ret.rows[r][5] = JStr("2024-01-06")
          /\ ret.rows[r][7] = JInt(12)
          /\ ret.rows[r][8] = JStr("SOON")

\* a step of build_analytics or preview_reminders leaves the data file as it is
ReadOnlyStep ==
    call'.op \in {"build_analytics", "preview_reminders"} => disk' = disk

\* C17: the read-only operations never change the persisted store: over every
\* step of build_analytics and preview_reminders the data file stays what it
\* was, also when it is in a legacy shape that load_store reads differently.
C17_ReportsWriteNothing == [][ReadOnlyStep]_vars

\* analytics ran on the data file of the second version, which load_store
\* does not return as it is, and the file is still that file
C17_Witness ==
    /\ call.op = "build_analytics"
    /\ ~ret.raised
    /\ pre = FileV2
    /\ load_store(pre) # pre
    /\ disk = FileV2

\* the name of an employee record as the upsert compares it
NameKey(emp) == Lower(Strip(Get(emp, "name", NoStr).v))

\* C18: after upserts, no company has two employee records whose trimmed
\* names are equal, letter case aside.
C18_EmployeeNamesUnique ==
    ~LoadRaises(disk) =>
        \A c \in 1..Len(Get(load_store(disk), "companies", NoDict).v) :
            \A i, j \in 1..Len(EmployeesIn(load_store(disk),
                                            Get(load_store(disk), "companies", NoDict).v[c][1])) :
                i # j =>
                    NameKey(EmployeesIn(load_store(disk),
                                        Get(load_store(disk), "companies", NoDict).v[c][1])[i])
                    # NameKey(EmployeesIn(load_store(disk),
                                          Get(load_store(disk), "companies", NoDict).v[c][1])[j])

\* " John Doe " was saved into a company without employees, then "john doe":
\* the company still has one employee, now named "john doe"
C18_Witness ==
    /\ saves = 2
    /\ EmployeeSaved
    /\ call.employee_name = "john doe"
    /\ Len(EmployeesBefore) = 1
    /\ Get(EmployeesBefore[1], "name", JNull) = JStr("John Doe")
    /\ Len(HistoryOf(EmployeesBefore[1])) = 1
    /\ Len(EmployeesAfter) = 1
    /\ Get(EmployeesAfter[1], "name", JNull) = JStr("john doe")

\* the fields of a record that are mappings with an expiry field
HasExpiry(field) == IsDict(field[2]) /\ Has(field[2], "expiry")

\* what the store holds for an entry of the profiles mapping that has no docs,
\* no history, or is no mapping
ProfileEntryRead(store, name, rec) ==
    /\ ~IsDict(rec) => ~Has(ProfilesIn(store), name)
    /\ IsDict(rec) => Has(ProfilesIn(store), name)
    /\ (IsDict(rec) /\ ~Has(rec, "docs")) =>
           Get(Get(ProfilesIn(store), name, NoDict), "docs", JNull)
              = JDict(SelectSeq(rec.v, HasExpiry))
    /\ (IsDict(rec) /\ ~Has(rec, "history")) =>
           Get(Get(ProfilesIn(store), name, NoDict), "history", JNull) = NoList

\* C19: for a profile entry that is a mapping without a docs key, load_store
\* builds the documents from exactly the fields that are mappings with an
\* expiry field; a missing history becomes the empty list; an entry that is
\* not a mapping is not in the store.
C19_ProfileDocsInferred ==
    (call.op = "load_store" /\ ~ret.raised) =>
        \A i \in 1..Len(RawProfiles(RawDict(pre)).v) :
            ProfileEntryRead(ret.store, RawProfiles(RawDict(pre)).v[i][1],
                             RawProfiles(RawDict(pre)).v[i][2])

\* load_store read a file whose profiles are a text and a mapping of three
\* fields without docs or history, one of them a document: the store has the
\* second profile only, with that one document and no history
C19_Witness ==
    /\ call.op = "load_store"
    /\ ~ret.raised
    /\ IsDict(pre)
    /\ IsDict(Get(pre, "profiles", NoDict))
    /\ Len(Get(pre, "profiles", NoDict).v) = 2
    /\ Get(pre, "profiles", NoDict).v[1][2] = JStr("x")
    /\ IsDict(Get(pre, "profiles", NoDict).v[2][2])
    /\ Len(Get(pre, "profiles", NoDict).v[2][2].v) = 3
    /\ ~Has(Get(pre, "profiles", NoDict).v[2][2], "docs")
    /\ ~Has(Get(pre, "profiles", NoDict).v[2][2], "history")
    /\ Len(ProfilesIn(ret.store).v) = 1
    /\ Len(Get(ProfilesIn(ret.store).v[1][2], "docs", NoDict).v) = 1
    /\ Get(ProfilesIn(ret.store).v[1][2], "history", JNull) = NoList

\* the keys of a mapping
KeysOf(d) == {d.v[i][1] : i \in 1..Len(d.v)}

\* C20: a top-level mapping is read as a flat collection of legacy profiles,
\* with no companies, exactly when it has neither a profiles key nor a
\* companies key; with either key, the profiles of the store are entries of
\* its profiles value and no other top-level key becomes a profile.
C20_LegacyOnlyWithoutKeys ==
    (call.op = "load_store" /\ ~ret.raised /\ IsDict(pre)) =>
        IF ~Has(pre, "profiles") /\ ~Has(pre, "companies")
        THEN /\ KeysOf(ProfilesIn(ret.store))
                   = {pre.v[i][1] : i \in {n \in 1..Len(pre.v) : IsDict(pre.v[n][2])}}
             /\ Get(ret.store, "companies", JNull) = NoDict
        ELSE KeysOf(ProfilesIn(ret.store))
                \subseteq (IF IsDict(Get(pre, "profiles", NoDict))
                           THEN KeysOf(Get(pre, "profiles", NoDict)) ELSE {})

\* C21: evaluate_doc returns the empty result, and does not raise, for every
\* expiry that is no YYYY-MM-DD calendar date: the empty text, text of
\* another form, a day or month that does not exist, and a value that is
\* absent or no text.
C21_UnparsableExpiryIsNone ==
    /\ (call.op = "evaluate_doc"
           /\ call.expiry_str \in {"", " ", "soon", "2024-02-30", "2023-02-29", "2024-13-01",
                                   "2024-00-10", "2024-01-32", "06-01-2024", "2024/01/06",
                                   "2024-01-06x", "20240106"})
          => (~ret.raised /\ ~IsEval(ret.eva) /\ ret.eva = NoEval)
    /\ call.op = "evaluate_doc(value)" => (~ret.raised /\ ~IsEval(ret.eva) /\ ret.eva = NoEval)

\* evaluate_doc was called for February 30 of a leap year
C21_Witness ==
    /\ call.op = "evaluate_doc"
    /\ call.expiry_str = "2024-02-30"
    /\ ~ret.raised
    /\ ret.eva = NoEval

\* the stored documents whose expiry parses
ValidDocs(docs) == {d \in docs : parse_date(Get(d.info, "expiry", NoStr)) # NoDate}

\* the analytics row of a document: who and what, and days_left
IsUpcomingRowOf(row, d) ==
    /\ row[1] = JStr(d.type)
    /\ row[2] = JStr(IF d.name = "" THEN "-" ELSE d.name)
    /\ row[3] = JStr(d.company)
    /\ row[4] = JStr(d.doc)
    /\ row[5] = Get(d.info, "expiry", NoStr)
    /\ row[6] = JInt(DaysLeftOf(d.info))
    /\ row[7] = JStr(StatusFor(DaysLeftOf(d.info)))

\* the rows are at most 30 of the documents, each once, in ascending order
\* of days_left, and no document left out has fewer days left than one shown
RowsAreSoonest(rows, docs) ==
    /\ Len(rows) = (IF Cardinality(docs) < 30 THEN Cardinality(docs) ELSE 30)
    /\ \A r \in 1..Len(rows) : \E d \in docs : IsUpcomingRowOf(rows[r], d)
    /\ \A r, q \in 1..Len(rows) : r # q => SubSeq(rows[r], 1, 4) # SubSeq(rows[q], 1, 4)
    /\ \A r \in 1..(Len(rows) - 1) : rows[r][6].v <= rows[r + 1][6].v
    /\ \A d \in docs :
          (\A r \in 1..Len(rows) : ~IsUpcomingRowOf(rows[r], d))
             => \A r \in 1..Len(rows) : rows[r][6].v <= DaysLeftOf(d.info)

\* C22: analytics returns at most 30 upcoming rows: the documents with the
\* smallest days_left among the documents of all profiles and employees whose
\* expiry parses, in ascending order of days_left, all of them when they are
\* fewer than 30.
C22_UpcomingAreThirtySoonest ==
    (call.op = "build_analytics" /\ ~ret.raised) =>
        RowsAreSoonest(ret.rows, ValidDocs(StoredDocs(load_store(pre))))

\* analytics ran on a store of 34 documents: 30 rows, the last of them 366
\* days ahead
C22_Witness ==
    /\ call.op = "build_analytics"
    /\ ~ret.raised
    /\ Cardinality(ValidDocs(StoredDocs(load_store(pre)))) = 34
    /\ Len(ret.rows) = 30
    /\ ret.rows[1][6] = JInt(-365)
    /\ ret.rows[30][6] = JInt(366)

\* C23: save_profile with an empty or blank name writes the profile "Self",
\* and otherwise the profile of the trimmed name; when the data file has a
\* profile of that name it is that entry which is written, and no entry is
\* added.
C23_ProfileKeyIsTrimmedOrSelf ==
    ProfileSaved =>
        /\ SavedProfileKey = (IF call.profile_name \in {"", " "} THEN "Self"
                              ELSE Strip(call.profile_name))
        /\ Has(ProfilesIn(disk), SavedProfileKey)
        /\ Get(Get(ProfilesIn(disk), SavedProfileKey, NoDict), "docs", JNull) = SavedDocs
        /\ Len(SavedDocs.v) = Cardinality(Parsable)
        /\ KeysOf(ProfilesIn(disk))
              = KeysOf(ProfilesIn(load_store(pre))) \cup {SavedProfileKey}
        /\ Len(ProfilesIn(disk).v) = Cardinality(KeysOf(ProfilesIn(disk)))
        /\ \A i \in 1..Len(ProfilesIn(load_store(pre)).v) :
              ProfilesIn(disk).v[i][1] = ProfilesIn(load_store(pre)).v[i][1]

\* a profile was saved twice under a blank name, starting without a data
\* file: the file has the one profile "Self", with a history of two entries
C23_Witness ==
    /\ saves = 2
    /\ ProfileSaved
    /\ call.profile_name = " "
    /\ KeysOf(ProfilesIn(load_store(pre))) = {"Self"}
    /\ Len(HistoryBefore) = 1
    /\ KeysOf(ProfilesIn(disk)) = {"Self"}
    /\ Len(ProfilesIn(disk).v) = 1
    /\ Len(HistoryOf(SavedRecord)) = 2

\* the keys of a mapping, in its order
KeySeq(d) == [i \in 1..Len(d.v) |-> d.v[i][1]]

\* C24: load_store discards unknown fields: the store has profiles and
\* companies only, every profile docs and history only, every company
\* employees only and every employee name, role, docs and history only.
C24_UnknownFieldsDiscarded ==
    (call.op = "load_store" /\ ~ret.raised) =>
        /\ KeySeq(ret.store) = <<"profiles", "companies">>
        /\ \A i \in 1..Len(ProfilesIn(ret.store).v) :
              KeySeq(ProfilesIn(ret.store).v[i][2]) = <<"docs", "history">>
        /\ \A c \in 1..Len(Get(ret.store, "companies", NoDict).v) :
              /\ KeySeq(Get(ret.store, "companies", NoDict).v[c][2]) = <<"employees">>
              /\ \A e \in 1..Len(Get(ret.store, "companies", NoDict).v[c][2].v[1][2].v) :
                    KeySeq(Get(ret.store, "companies", NoDict).v[c][2].v[1][2].v[e])
                       = <<"name", "role", "docs", "history">>

\* load_store read a file with a version field, a profile that has a phone
\* field and a company with two employees, and returned the profile with docs
\* and history only
C24_Witness ==
    /\ call.op = "load_store"
    /\ ~ret.raised
    /\ IsDict(pre)
    /\ Has(pre, "version")
    /\ IsDict(Get(pre, "profiles", NoDict))
    /\ \E i \in 1..Len(Get(pre, "profiles", NoDict).v) :
          /\ IsDict(Get(pre, "profiles", NoDict).v[i][2])
          /\ Has(Get(pre, "profiles", NoDict).v[i][2], "phone")
          /\ KeySeq(Get(ProfilesIn(ret.store), Get(pre, "profiles", NoDict).v[i][1], NoDict))
                = <<"docs", "history">>
    /\ Len(EmployeesIn(ret.store, "Acme")) = 2

\* the date the last preview counted from: the day of the call when the date
\* asked for is empty or no date
PreviewFrom == IF PreviewDate = NoDate THEN call.at ELSE PreviewDate

\* the preview says it covers that many days, and has one row for each
\* document due within them and none beyond
WindowUsed(result, docs, as_of_date, window) ==
    /\ StartsWith(result.text,
                  "Reminder preview from " \o FormatDate(as_of_date) \o " for the next "
                  \o ToString(window) \o " days.\n")
    /\ Len(result.rows) = Cardinality(DueWithin(docs, as_of_date, window))
    /\ \A r \in 1..Len(result.rows) :
          0 <= result.rows[r][7].v /\ result.rows[r][7].v <= window

\* C25: the reminder preview uses a window of 7 days when window_days is
\* absent or negative, and window_days itself when it is 0 or more; with 0 it
\* has only the documents that expire on the as-of date.
C25_WindowDefaultsToSeven ==
    (call.op = "preview_reminders" /\ ~ret.raised) =>
        /\ (call.window_days = JNull \/ call.window_days.v < 0) =>
               WindowUsed(ret, StoredDocs(load_store(pre)), PreviewFrom, 7)
        /\ (call.window_days # JNull /\ call.window_days.v >= 0) =>
               WindowUsed(ret, StoredDocs(load_store(pre)), PreviewFrom, call.window_days.v)

\* a preview from 2023-12-25 with a window of -1: it has the document that
\* expires 7 days later and not the one that expires 12 days later
C25_Witness ==
    /\ call.op = "preview_reminders"
    /\ ~ret.raised
    /\ call.window_days = JInt(-1)
    /\ call.as_of_date_str = "2023-12-25"
    /\ \E r \in 1..Len(ret.rows) :
          ret.rows[r][5] = JStr("2024-01-01") /\ ret.rows[r][7] = JInt(7)
    /\ \E d \in StoredDocs(load_store(pre)) : Get(d.info, "expiry", NoStr) = JStr("2024-01-06")
    /\ \A r \in 1..Len(ret.rows) : ret.rows[r][5] # JStr("2024-01-06")


\* what a request writes to: a profile, or an employee of a company
RaceTarget(req) ==
    IF req.op = "save_profile"
    THEN <<"profile", IF Strip(req.profile_name) = "" THEN "Self" ELSE Strip(req.profile_name)>>
    ELSE <<"employee", Strip(req.company_name), Lower(Strip(req.employee_name))>>

\* the stored record a request writes to, JNull when there is none
RaceEntity(store, req) ==
    IF req.op = "save_profile"
    THEN Get(ProfilesIn(store), RaceTarget(req)[2], JNull)
    ELSE LET emps == EmployeesIn(store, RaceTarget(req)[2])
             m == {i \in 1..Len(emps) : NameKey(emps[i]) = RaceTarget(req)[3]}
         IN IF m = {} THEN JNull ELSE emps[CHOOSE i \in m : \A j \in m : i <= j]

RaceHistory(store, req) ==
    IF RaceEntity(store, req) = JNull THEN <<>> ELSE HistoryOf(RaceEntity(store, req))

\* the document types of a form whose date parses
ValidTypes(form) ==
    {DOC_TYPES[i] : i \in {n \in 1..Len(DOC_TYPES) : parse_date(JStr(form[n][1])) # NoDate}}

\* both handlers read the data file before either wrote it, and both have
\* written
Overlapped ==
    /\ call[1].pc = "done"
    /\ call[2].pc = "done"
    /\ pre[1] = pre[2]

\* the data file holds the write of handler p and nothing of handler q
OnlyWriteOf(p, q) ==
    /\ KeysOf(Get(RaceEntity(disk, call[p]), "docs", NoDict)) = ValidTypes(call[p].form)
    /\ Len(RaceHistory(disk, call[p])) = Len(RaceHistory(load_store(pre[p]), call[p])) + 1
    /\ IsPrefix(RaceHistory(load_store(pre[p]), call[p]), RaceHistory(disk, call[p]))
    /\ RaceTarget(call[q]) # RaceTarget(call[p])
          => RaceEntity(disk, call[q]) = RaceEntity(load_store(pre[q]), call[q])

\* C26: when two upserts both read the data file before either writes it,
\* both are acknowledged as saved, and the data file ends as the later writer
\* left it: its entity with its documents and one more history entry, and the
\* entity of the earlier writer as it was before both, without the earlier
\* writer's documents and history entry.
C26_LastWriterWins ==
    Overlapped =>
        \A p, q \in {1, 2} :
            (p # q /\ ret[p].rank = 2) =>
                /\ ret[q].rank = 1
                /\ StartsWith(ret[p].msg, "Saved successfully.")
                /\ StartsWith(ret[q].msg, "Saved successfully.")
                /\ OnlyWriteOf(p, q)

\* a profile and an employee were saved at once into an empty store, both
\* were acknowledged, and the one written first is not in the data file
C26_Witness ==
    /\ Overlapped
    /\ pre[1] = Missing
    /\ \E p, q \in {1, 2} :
          /\ ret[p].rank = 2
          /\ ret[q].rank = 1
          /\ StartsWith(ret[q].msg, "Saved successfully.")
          /\ ValidTypes(call[q].form) # {}
          /\ RaceTarget(call[q]) # RaceTarget(call[p])
          /\ RaceEntity(disk, call[q]) = JNull
          /\ RaceEntity(disk, call[p]) # JNull

\* the documents the entity of the last upsert had before it
DocsBefore ==
    IF call.op = "save_profile"
    THEN Get(Get(ProfilesIn(load_store(pre)), SavedProfileKey, NoProfile), "docs", NoDict)
    ELSE IF Matches # {} THEN Get(EmployeesBefore[FirstMatch], "docs", NoDict) ELSE NoDict

\* C27: an upsert replaces the documents of its entity: a document stored
\* before is stored after only if its type was submitted with a date that
\* parses, and every document stored after carries the submitted expiry, each
\* type once.
C27_UpsertReplacesDocuments ==
    (ProfileSaved \/ EmployeeSaved) =>
        /\ \A t \in KeysOf(DocsBefore) :
              t \in KeysOf(SavedDocs) <=> \E i \in Parsable : DOC_TYPES[i] = t
        /\ \A j \in 1..Len(SavedDocs.v) :
              \E i \in Parsable :
                  /\ DOC_TYPES[i] = SavedDocs.v[j][1]
                  /\ Get(SavedDocs.v[j][2], "expiry", NoStr) = JStr(Strip(call.form[i][1]))
        /\ Len(SavedDocs.v) = Cardinality(KeysOf(SavedDocs))

\* a profile that had an Emirates ID and a Driving License was saved with
\* February 30 as the date of the first and a blank date for the second:
\* neither is stored any more
C27_Witness ==
    /\ ProfileSaved
    /\ {"Emirates ID", "Driving License", "Visa"} \subseteq KeysOf(DocsBefore)
    /\ call.form[1][1] = "2024-02-30"
    /\ call.form[3][1] = " "
    /\ "Emirates ID" \notin KeysOf(SavedDocs)
    /\ "Driving License" \notin KeysOf(SavedDocs)
    /\ "Visa" \in KeysOf(SavedDocs)

\* the data file is a store that load_store returns as it is
Canonical(file) == IsDict(file) /\ ~LoadRaises(file) /\ load_store(file) = file

\* the mapping `after` is the mapping `before` with at most the value of
\* key changed or added at the end
OnlyKeyChanged(before, after, key) ==
    /\ Len(after.v) = Len(before.v) + (IF Has(before, key) THEN 0 ELSE 1)
    /\ \A i \in 1..Len(before.v) :
          /\ after.v[i][1] = before.v[i][1]
          /\ before.v[i][1] # key => after.v[i] = before.v[i]
    /\ Has(after, key)

\* the list `after` is the list `before` with the element at position at
\* changed, or with one element added at the end when at = 0
OnlyElementChanged(before, after, at) ==
    /\ Len(after) = Len(before) + (IF at = 0 THEN 1 ELSE 0)
    /\ \A i \in 1..Len(before) : i # at => after[i] = before[i]

\* C28: from a canonical data file, a profile upsert leaves every other
\* profile and the companies as they were; an employee upsert leaves the
\* profiles, every other company, and every other employee of its company
\* at its position in the list.
C28_UpsertChangesOnlyTarget ==
    /\ (ProfileSaved /\ Canonical(pre)) =>
          /\ KeySeq(disk) = KeySeq(pre)
          /\ Get(disk, "companies", JNull) = Get(pre, "companies", NoDict)
          /\ OnlyKeyChanged(ProfilesIn(pre), ProfilesIn(disk), SavedProfileKey)
    /\ (EmployeeSaved /\ Canonical(pre)) =>
          /\ KeySeq(disk) = KeySeq(pre)
          /\ Get(disk, "profiles", JNull) = Get(pre, "profiles", NoDict)
          /\ OnlyKeyChanged(Get(pre, "companies", NoDict), Get(disk, "companies", NoDict),
                            SavedCompanyKey)
          /\ OnlyKeyChanged(Get(Get(pre, "companies", NoDict), SavedCompanyKey, NoCompany),
                            Get(Get(disk, "companies", NoDict), SavedCompanyKey, NoCompany),
                            "employees")
          /\ OnlyElementChanged(EmployeesBefore, EmployeesAfter,
                                IF Matches # {} THEN FirstMatch ELSE 0)

\* the first of two employees of "Acme" was saved again in a store that also
\* has a profile and another company: the record changed, the second
\* employee, the other company and the profile did not
C28_Witness ==
    /\ EmployeeSaved
    /\ Canonical(pre)
    /\ SavedCompanyKey = "Acme"
    /\ Matches = {1}
    /\ Len(EmployeesBefore) = 2
    /\ EmployeesAfter[1] # EmployeesBefore[1]
    /\ EmployeesAfter[2] = EmployeesBefore[2]
    /\ Has(Get(pre, "companies", NoDict), "My Company")
    /\ Get(Get(disk, "companies", NoDict), "My Company", JNull)
          = Get(Get(pre, "companies", NoDict), "My Company", NoCompany)
    /\ Has(ProfilesIn(pre), "Wife")
    /\ ProfilesIn(disk) = ProfilesIn(pre)

\* a stored profile: a mapping docs and a list history
ProfileShaped(rec) ==
    /\ IsDict(rec)
    /\ IsDict(Get(rec, "docs", JNull))
    /\ IsList(Get(rec, "history", JNull))

\* a stored employee: a trimmed name, a trimmed role, a mapping docs and a
\* list history
EmployeeShaped(rec) ==
    /\ IsDict(rec)
    /\ IsStr(Get(rec, "name", JNull))
    /\ Strip(Get(rec, "name", NoStr).v) = Get(rec, "name", NoStr).v
    /\ IsStr(Get(rec, "role", JNull))
    /\ Strip(Get(rec, "role", NoStr).v) = Get(rec, "role", NoStr).v
    /\ IsDict(Get(rec, "docs", JNull))
    /\ IsList(Get(rec, "history", JNull))

\* a stored company: a list employees of stored employees
CompanyShaped(rec) ==
    /\ IsDict(rec)
    /\ IsList(Get(rec, "employees", JNull))
    /\ \A i \in 1..Len(Get(rec, "employees", NoList).v) :
          EmployeeShaped(Get(rec, "employees", NoList).v[i])

StoreShaped(store) ==
    /\ IsDict(store)
    /\ IsDict(Get(store, "profiles", JNull))
    /\ IsDict(Get(store, "companies", JNull))
    /\ \A i \in 1..Len(Get(store, "profiles", NoDict).v) :
          ProfileShaped(Get(store, "profiles", NoDict).v[i][2])
    /\ \A i \in 1..Len(Get(store, "companies", NoDict).v) :
          CompanyShaped(Get(store, "companies", NoDict).v[i][2])

\* C29: the store an upsert writes is canonical, whatever the data file was
\* before: profiles and companies are there, profiles and employees have the
\* canonical fields, and load_store returns the written file unchanged.
C29_PersistedStoreCanonical ==
    (ProfileSaved \/ EmployeeSaved) =>
        /\ StoreShaped(disk)
        /\ ~LoadRaises(disk)
        /\ load_store(disk) = disk

\* an employee typed as " John Doe " was saved on a data file that was not
\* canonical: the written file is, and the name is stored trimmed
C29_Witness ==
    /\ EmployeeSaved
    /\ IsDict(pre)
    /\ ~LoadRaises(pre)
    /\ load_store(pre) # pre
    /\ call.employee_name = " John Doe "
    /\ Get(SavedRecord, "name", NoStr) = JStr("John Doe")
    /\ Get(SavedRecord, "role", NoStr) = JStr("PRO")
    /\ StoreShaped(disk)
    /\ load_store(disk) = disk

\* the expiry of a stored document is a trimmed text that parses as a date,
\* and evaluate_doc gives the document a status
ExpiryParses(info, now) ==
    /\ IsStr(Get(info, "expiry", JNull))
    /\ Strip(Get(info, "expiry", NoStr).v) = Get(info, "expiry", NoStr).v
    /\ parse_date(Get(info, "expiry", NoStr)) # NoDate
    /\ IsEval(EvalInfo(info, now))

\* the rows of the last table that say NO VALID DOCS are those of the
\* entities without documents
NoValidDocsMeansEmpty ==
    \A i \in 1..Len(TableEntities) :
        (\E r \in 1..Len(ret.rows) :
            /\ NameCell(ret.rows[r]) = JStr(TableEntities[i].name)
            /\ ret.rows[r][Len(ret.rows[r])] = JStr("NO VALID DOCS"))
        <=> TableEntities[i].docs = <<>>

\* C30: in a data file written by upserts from the empty store, every stored
\* document has a trimmed expiry that parses and evaluates to a status, and an
\* overview table says NO VALID DOCS only for an entity without documents.
C30_UpsertedDocumentsParse ==
    pre \in UpsertedFiles =>
        /\ \A d \in StoredDocs(load_store(pre)) : ExpiryParses(d.info, today)
        /\ TableBuilt => NoValidDocsMeansEmpty

\* the profiles table of a store written by upserts, one with the form whose
\* dates are February 30, "soon" and a blank, one with " 2024-01-06 ": the
\* first has no documents and its row says NO VALID DOCS, the second is
\* stored trimmed
C30_Witness ==
    /\ call.op = "build_profiles_overview_table"
    /\ ~ret.raised
    /\ pre \in UpsertedFiles
    /\ Get(Get(ProfilesIn(pre), "Self", NoProfile), "docs", JNull) = NoDict
    /\ Get(Get(Get(Get(ProfilesIn(pre), "Wife", NoProfile), "docs", NoDict),
               "Emirates ID", NoDict), "expiry", JNull) = JStr("2024-01-06")
    /\ \E r \in 1..Len(ret.rows) :
          /\ ret.rows[r][1] = JStr("Self")
          /\ ret.rows[r][5] = JStr("NO VALID DOCS")
    /\ \E r \in 1..Len(ret.rows) :
          /\ ret.rows[r][1] = JStr("Wife")
          /\ ret.rows[r][2] = JStr("Emirates ID")
====
